---- MODULE Spec2Model ----
(***************************************************************************)
(* State-machine model of the DataLayer singleton wallet                   *)
(* (chia/data_layer/data_layer_wallet.py): launcher tracking, successor    *)
(* authoring, sync of confirmed spends and the fork detector / rebaser.    *)
(*                                                                         *)
(* Hashes are modelled as injective constructors (tagged tuples), so a     *)
(* coin id determines its parent, puzzle hash and amount.  Every 32-byte   *)
(* value is a tuple; the empty tuple stands for None.                      *)
(***************************************************************************)
EXTENDS FiniteSets, Integers, Sequences, TLC

\* ------------------------------------------------------------------ bounds
MaxDerivations == 3
MaxHeight == 3
MaxActions == 1

\* ------------------------------------------------------- values and hashes
None == <<>>

Roots == {<<"R0">>, <<"R1">>}
OriginCoins == {<<"o1">>}
ForeignPH == <<"ph", 0>>
SINGLETON_LAUNCHER_HASH == <<"launcher_puzzle">>

\* Coin(parent, puzzle_hash, amount).name()
CoinName(parent, puzzle_hash, amount) == <<"coin", parent, puzzle_hash, amount>>

\* create_host_fullpuz(inner, root, launcher_id).get_tree_hash(inner)
create_host_fullpuz(inner, root, launcher_id) == <<"full", inner, root, launcher_id>>

\* create_host_layer_puzzle(inner, root).get_tree_hash(inner)
create_host_layer_puzzle(inner, root) == <<"host", inner, root>>

\* tree hash of the constant-emitter inner puzzle of the ephemeral coin
announce_only(new_puz_hash, amount, launcher_id, root) ==
    <<"announce", new_puz_hash, amount, launcher_id, root>>

LineageProof(parent_name, inner_puzzle_hash, amount) ==
    [parent_name |-> parent_name, inner_puzzle_hash |-> inner_puzzle_hash, amount |-> amount]

get_timestamp_for_height(h) == 10 * h

LauncherCoin(origin) ==
    [parent_coin_info |-> origin, puzzle_hash |-> SINGLETON_LAUNCHER_HASH, amount |-> 1]

LauncherId(origin) == CoinName(origin, SINGLETON_LAUNCHER_HASH, 1)

LauncherIds == {LauncherId(o) : o \in OriginCoins}

\* ---------------------------------------------------------------- conditions
CREATE_COIN == 51
CREATE_PUZZLE_ANNOUNCEMENT == 62

CreateCoin(puzzle_hash, amount, memos) ==
    [opcode |-> CREATE_COIN, puzzle_hash |-> puzzle_hash, amount |-> amount, memos |-> memos]

OtherCondition(opcode) ==
    [opcode |-> opcode, puzzle_hash |-> None, amount |-> 0, memos |-> <<>>]

CoinSpend(coin, conditions) == [coin |-> coin, conditions |-> conditions]

\* SpendBundle.additions(): the coins created by the CREATE_COIN conditions
BundleAdditions(coin_spends) ==
    UNION {{CoinName(coin_spends[i].coin,
                     coin_spends[i].conditions[j].puzzle_hash,
                     coin_spends[i].conditions[j].amount) :
                j \in {k \in DOMAIN coin_spends[i].conditions :
                          coin_spends[i].conditions[k].opcode = CREATE_COIN}} :
           i \in DOMAIN coin_spends}

\* SpendBundle.removals(): the coins spent by the bundle
BundleRemovals(coin_spends) == {coin_spends[i].coin : i \in DOMAIN coin_spends}

NoBundle == [present |-> FALSE, coin_spends |-> <<>>, fees |-> 0]

SpendBundle(coin_spends, fees) == [present |-> TRUE, coin_spends |-> coin_spends, fees |-> fees]

\* ----------------------------------------------------------- singleton store
\* dl_store: a set of SingletonRecord rows keyed by coin_id
SingletonRecord(coin_id, launcher_id, root, inner_puzzle_hash, confirmed, confirmed_at_height, timestamp, lineage_proof, generation) ==
    [coin_id |-> coin_id, launcher_id |-> launcher_id, root |-> root,
     inner_puzzle_hash |-> inner_puzzle_hash, confirmed |-> confirmed,
     confirmed_at_height |-> confirmed_at_height, timestamp |-> timestamp,
     lineage_proof |-> lineage_proof, generation |-> generation]

get_singleton_record(db, coin_id) == {r \in db : r.coin_id = coin_id}

add_singleton_record(db, record) ==
    {r \in db : r.coin_id # record.coin_id} \cup {record}

set_confirmed(db, coin_id, height, timestamp) ==
    {IF r.coin_id = coin_id
       THEN [r EXCEPT !.confirmed = TRUE, !.confirmed_at_height = height,
                      !.timestamp = timestamp]
       ELSE r : r \in db}

delete_singleton_record(db, coin_id) == {r \in db : r.coin_id # coin_id}

delete_singleton_records_by_launcher_id(db, launcher_id) ==
    {r \in db : r.launcher_id # launcher_id}

get_all_singletons_for_launcher(db, launcher_id, min_generation) ==
    {r \in db : r.launcher_id = launcher_id /\ r.generation >= min_generation}

get_unconfirmed_singletons(db, launcher_id) ==
    {r \in db : r.launcher_id = launcher_id /\ ~r.confirmed}

get_latest_singleton(db, launcher_id, only_confirmed) ==
    LET S == {r \in db : r.launcher_id = launcher_id /\ (only_confirmed => r.confirmed)}
    IN  IF S = {} THEN {}
        ELSE {CHOOSE r \in S : \A o \in S : o.generation <= r.generation}

\* sorted(records, key=attrgetter("generation"))
RECURSIVE SortByGeneration(_)
SortByGeneration(S) ==
    IF S = {} THEN <<>>
    ELSE LET m == CHOOSE r \in S : \A o \in S : r.generation <= o.generation
         IN  <<m>> \o SortByGeneration(S \ {m})

\* get_history: all rows of the launcher in generation order
get_history(db, launcher_id) ==
    SortByGeneration(get_all_singletons_for_launcher(db, launcher_id, 0))

\* launcher rows: a set of launcher coins keyed by their coin name
LauncherRowId(coin) == CoinName(coin.parent_coin_info, coin.puzzle_hash, coin.amount)

get_launcher(rows, launcher_id) == {c \in rows : LauncherRowId(c) = launcher_id}

\* ------------------------------------------------------------ derivation index
DerivedPH(k) == <<"ph", k>>

\* a lookup that also finds the puzzle hash no derivation of this wallet has
Owned_from_zero(drv, ph) == \E k \in 0..drv : ph = DerivedPH(k)

\* puzzle_store.get_derivation_record_for_puzzle_hash(ph) is not None
Owned(drv, ph) == \E k \in 1..drv : ph = DerivedPH(k)

\* ------------------------------------------------------------ transactions
\* TransactionRecord; wallet_id is "dl" for this wallet, "std" for the standard wallet
TransactionRecord(name, wallet_id, fee_amount, spend_bundle, additions, removals) ==
    [name |-> name, wallet_id |-> wallet_id, fee_amount |-> fee_amount,
     spend_bundle |-> spend_bundle, additions |-> additions, removals |-> removals,
     confirmed |-> FALSE]

\* tx_store.add_transaction_record: rows are keyed by name
add_transaction_record(txs, tx) == {t \in txs : t.name # tx.name} \cup {tx}

RECURSIVE add_pending_transactions(_, _)
add_pending_transactions(txs, list) ==
    IF list = <<>> THEN txs
    ELSE add_pending_transactions(add_transaction_record(txs, Head(list)), Tail(list))

get_transaction_record(txs, name) == {t \in txs : t.name = name}

get_unconfirmed_for_wallet(txs, wallet_id) ==
    {t \in txs : t.wallet_id = wallet_id /\ ~t.confirmed}

\* the standard wallet's fee transaction: it spends one of its own coins and
\* asserts the coin announcement of the singleton coin
create_tandem_xch_tx(fee, announcing_coin) ==
    LET std_spend == CoinSpend(<<"xch", announcing_coin>>, <<>>)
    IN  TransactionRecord(<<"stdtx", announcing_coin>>, "std", fee,
                          SpendBundle(<<std_spend>>, fee), {}, {std_spend.coin})

\* ------------------------------------------------------------------ authoring
\* the wallet state an operation reads and writes
World(db, rows, txs, drv, coins, ids, phs) ==
    [db |-> db, launchers |-> rows, txs |-> txs, drv |-> drv,
     coins |-> coins, interested_coin_ids |-> ids, interested_puzzle_hashes |-> phs]

\* coin_store.add_coin_record: rows are keyed by the coin
add_coin_record(coins, coin, height) ==
    {c \in coins : c.coin # coin} \cup {[coin |-> coin, confirmed_block_height |-> height]}

\* lines 685-716 without the test of line 692
get_spendable_singleton_info_without_confirmed_test(w, launcher_id) ==
    LET latest == get_latest_singleton(w.db, launcher_id, FALSE)
        Err(e) == [err |-> e, record |-> {}, parent_lineage |-> {}]
    IN  IF latest = {} THEN Err("NotTracked")
        ELSE LET singleton_record == CHOOSE r \in latest : TRUE
                 parent_singleton ==
                     get_singleton_record(w.db, singleton_record.lineage_proof.parent_name)
                 launcher_coin == get_launcher(w.launchers, launcher_id)
             IN  IF singleton_record.lineage_proof.parent_name = None
                   THEN Err("InsufficientLineage")
                 ELSE IF parent_singleton = {}
                   THEN IF singleton_record.lineage_proof.parent_name # launcher_id
                          THEN Err("ParentNotFound")
                        ELSE IF launcher_coin = {} THEN Err("NoLauncherInfo")
                        ELSE [err |-> "none", record |-> latest,
                              parent_lineage |->
                                  {LineageProof((CHOOSE c \in launcher_coin : TRUE).parent_coin_info,
                                                None,
                                                (CHOOSE c \in launcher_coin : TRUE).amount)}]
                 ELSE [err |-> "none", record |-> latest,
                       parent_lineage |->
                           {(CHOOSE r \in parent_singleton : TRUE).lineage_proof}]

get_spendable_singleton_info(w, launcher_id) ==
    LET latest == get_latest_singleton(w.db, launcher_id, FALSE)
        Err(e) == [err |-> e, record |-> {}, parent_lineage |-> {}]
    IN  IF latest = {} THEN Err("NotTracked")
        ELSE LET singleton_record == CHOOSE r \in latest : TRUE
                 parent_singleton ==
                     get_singleton_record(w.db, singleton_record.lineage_proof.parent_name)
                 launcher_coin == get_launcher(w.launchers, launcher_id)
             IN  IF ~singleton_record.confirmed THEN Err("Pending")
                 ELSE IF singleton_record.lineage_proof.parent_name = None
                   THEN Err("InsufficientLineage")
                 ELSE IF parent_singleton = {}
                   THEN IF singleton_record.lineage_proof.parent_name # launcher_id
                          THEN Err("ParentNotFound")
                        ELSE IF launcher_coin = {} THEN Err("NoLauncherInfo")
                        ELSE [err |-> "none", record |-> latest,
                              parent_lineage |->
                                  {LineageProof((CHOOSE c \in launcher_coin : TRUE).parent_coin_info,
                                                None,
                                                (CHOOSE c \in launcher_coin : TRUE).amount)}]
                 ELSE [err |-> "none", record |-> latest,
                       parent_lineage |->
                           {(CHOOSE r \in parent_singleton : TRUE).lineage_proof}]

\* arguments of create_update_state_spend; defaults as in the signature
UpdateArgs(launcher_id, root_hash, new_puz_hash, new_amount, fee, add_pending_singleton, announce_new_state, funds) ==
    [launcher_id |-> launcher_id, root_hash |-> root_hash, new_puz_hash |-> new_puz_hash,
     new_amount |-> new_amount, fee |-> fee,
     add_pending_singleton |-> add_pending_singleton,
     announce_new_state |-> announce_new_state, funds |-> funds]

\* create_update_state_spend returns the error kind ("none" on success), the
\* world after the call and the returned transaction records
Raise(e, world) == [err |-> e, w |-> world, txs |-> <<>>]

\* lines 449-459: the coin the latest record describes; puzzle_for_pk of the
\* derivation hashes to the puzzle hash the derivation was looked up by
CurrentCoin(singleton_record, launcher_id) ==
    CoinName(singleton_record.lineage_proof.parent_name,
             create_host_fullpuz(singleton_record.inner_puzzle_hash, singleton_record.root,
                                 launcher_id),
             singleton_record.lineage_proof.amount)

\* lines 463-477 with the generation of the latest record kept
FirstSingletonRecord_same_generation(singleton_record, launcher_id, root_hash, new_puz_hash, current_coin) ==
    SingletonRecord(CoinName(current_coin,
                             create_host_fullpuz(new_puz_hash, root_hash, launcher_id),
                             singleton_record.lineage_proof.amount),
                    launcher_id, root_hash, new_puz_hash, FALSE, 0, 0,
                    LineageProof(singleton_record.coin_id, new_puz_hash,
                                 singleton_record.lineage_proof.amount),
                    singleton_record.generation)

\* lines 463-477: the pending successor without the announce step
FirstSingletonRecord(singleton_record, launcher_id, root_hash, new_puz_hash, current_coin) ==
    SingletonRecord(CoinName(current_coin,
                             create_host_fullpuz(new_puz_hash, root_hash, launcher_id),
                             singleton_record.lineage_proof.amount),
                    launcher_id, root_hash, new_puz_hash, FALSE, 0, 0,
                    LineageProof(singleton_record.coin_id, new_puz_hash,
                                 singleton_record.lineage_proof.amount),
                    singleton_record.generation + 1)

\* lines 481-502: the ephemeral coin
SecondCoin(singleton_record, launcher_id, root_hash, new_puz_hash, current_coin) ==
    CoinName(current_coin,
             create_host_fullpuz(announce_only(new_puz_hash, singleton_record.lineage_proof.amount,
                                               launcher_id, root_hash),
                                 root_hash, launcher_id),
             singleton_record.lineage_proof.amount)

\* lines 503-517: the spend of the ephemeral coin; its inner puzzle emits the
\* conditions of lines 485-491
SecondCoinSpend(singleton_record, launcher_id, root_hash, new_puz_hash, second_coin) ==
    CoinSpend(second_coin,
              <<CreateCoin(create_host_fullpuz(new_puz_hash, root_hash, launcher_id),
                           singleton_record.lineage_proof.amount,
                           <<launcher_id, root_hash, new_puz_hash>>),
                OtherCondition(CREATE_PUZZLE_ANNOUNCEMENT)>>)

\* lines 523-537: the pending record of the ephemeral coin
SecondSingletonRecord(singleton_record, launcher_id, root_hash, new_puz_hash, current_coin, second_coin) ==
    SingletonRecord(second_coin, launcher_id, root_hash,
                    announce_only(new_puz_hash, singleton_record.lineage_proof.amount,
                                  launcher_id, root_hash),
                    FALSE, 0, 0,
                    LineageProof(current_coin,
                                 announce_only(new_puz_hash, singleton_record.lineage_proof.amount,
                                               launcher_id, root_hash),
                                 singleton_record.lineage_proof.amount),
                    singleton_record.generation + 1)

\* lines 538-547: with the announce step the successor is the ephemeral coin's child
NewSingletonRecord(singleton_record, launcher_id, root_hash, new_puz_hash, current_coin, second_coin, announce_new_state) ==
    IF announce_new_state
      THEN [FirstSingletonRecord(singleton_record, launcher_id, root_hash, new_puz_hash,
                                 current_coin) EXCEPT
                !.coin_id = CoinName(second_coin,
                                     create_host_fullpuz(new_puz_hash, root_hash, launcher_id),
                                     singleton_record.lineage_proof.amount),
                !.lineage_proof =
                    LineageProof(second_coin,
                                 create_host_fullpuz(new_puz_hash, root_hash, launcher_id),
                                 singleton_record.lineage_proof.amount),
                !.generation = singleton_record.generation + 1 + 1]
      ELSE FirstSingletonRecord(singleton_record, launcher_id, root_hash, new_puz_hash,
                                current_coin)

\* lines 552-553: the puzzle hash and amount of the coin the spend creates
PrimaryPuzzlehash(a, amount, root_hash, new_puz_hash) ==
    IF a.announce_new_state
      THEN announce_only(new_puz_hash, amount, a.launcher_id, root_hash)
      ELSE new_puz_hash

PrimaryAmount(a, amount) == IF a.new_amount = None THEN amount ELSE a.new_amount[1]

\* line 554: the memos of the created coin
PrimaryMemos(launcher_id, root_hash, new_puz_hash) == <<launcher_id, root_hash, new_puz_hash>>

\* lines 550-585: the spend of the current coin, with the conditions the layered
\* puzzle outputs for the solution
UpdateCoinSpend(a, amount, root_hash, new_puz_hash, current_coin) ==
    CoinSpend(current_coin,
              <<CreateCoin(create_host_fullpuz(PrimaryPuzzlehash(a, amount, root_hash, new_puz_hash),
                                               root_hash, a.launcher_id),
                           PrimaryAmount(a, amount),
                           PrimaryMemos(a.launcher_id, root_hash, new_puz_hash))>>
              \o (IF a.fee > 0 THEN <<OtherCondition(60)>> ELSE <<>>)
              \o (IF a.announce_new_state THEN <<OtherCondition(63)>> ELSE <<>>))

\* lines 588-594: the coin spends of the bundle
UpdateCoinSpends(a, singleton_record, root_hash, new_puz_hash, current_coin, second_coin) ==
    <<UpdateCoinSpend(a, singleton_record.lineage_proof.amount, root_hash, new_puz_hash,
                      current_coin)>>
    \o (IF a.announce_new_state
          THEN <<SecondCoinSpend(singleton_record, a.launcher_id, root_hash, new_puz_hash,
                                 second_coin)>>
          ELSE <<>>)

\* lines 596-613: the singleton's transaction; the bundle's fees are what the
\* spent coin holds beyond the coin it creates
DlTx(name, fee, coin_spends, dl_fees) ==
    TransactionRecord(name, "dl", fee, SpendBundle(coin_spends, dl_fees),
                      BundleAdditions(coin_spends), BundleRemovals(coin_spends))

\* lines 614-623: with a fee, the aggregate bundle and the standard wallet's record
UpdateTransactions(fee, dl_tx, chia_tx) ==
    IF fee > 0
      THEN <<[dl_tx EXCEPT !.spend_bundle =
                  SpendBundle(dl_tx.spend_bundle.coin_spends \o chia_tx.spend_bundle.coin_spends,
                              dl_tx.spend_bundle.fees + chia_tx.spend_bundle.fees)],
             [chia_tx EXCEPT !.spend_bundle = NoBundle]>>
      ELSE <<dl_tx>>

\* lines 625-634 without the test of add_pending_singleton
AddPendingSingletons_always(db, a, new_singleton_record, second_singleton_record) ==
    IF ~a.announce_new_state THEN add_singleton_record(db, new_singleton_record)
    ELSE add_singleton_record(add_singleton_record(db, new_singleton_record),
                              second_singleton_record)

\* lines 625-634: the pending records are stored last
AddPendingSingletons(db, a, new_singleton_record, second_singleton_record) ==
    IF ~a.add_pending_singleton THEN db
    ELSE IF ~a.announce_new_state THEN add_singleton_record(db, new_singleton_record)
    ELSE add_singleton_record(add_singleton_record(db, new_singleton_record),
                              second_singleton_record)

\* lines 549-636, given the coins computed before
UpdateWithCoins(w, a, singleton_record, root_hash, new_puz_hash, drv1, current_coin, second_coin) ==
    IF a.fee > 0 /\ ~a.funds THEN Raise("StdWalletError", [w EXCEPT !.drv = drv1])
    ELSE [err |-> "none",
          w |-> [w EXCEPT
                   !.db = AddPendingSingletons(@, a,
                              NewSingletonRecord(singleton_record, a.launcher_id, root_hash,
                                                 new_puz_hash, current_coin, second_coin,
                                                 a.announce_new_state),
                              SecondSingletonRecord(singleton_record, a.launcher_id, root_hash,
                                                    new_puz_hash, current_coin, second_coin)),
                   !.drv = drv1],
          txs |-> UpdateTransactions(a.fee,
                      DlTx(singleton_record.coin_id, a.fee,
                           UpdateCoinSpends(a, singleton_record, root_hash, new_puz_hash,
                                            current_coin, second_coin),
                           singleton_record.lineage_proof.amount
                               - PrimaryAmount(a, singleton_record.lineage_proof.amount)),
                      create_tandem_xch_tx(a.fee, current_coin))]

\* lines 448-547, given the root and the inner puzzle hash of the successor
UpdateWithPuzzles(w, a, singleton_record, root_hash, new_puz_hash, drv1) ==
    UpdateWithCoins(w, a, singleton_record, root_hash, new_puz_hash, drv1,
                    CurrentCoin(singleton_record, a.launcher_id),
                    SecondCoin(singleton_record, a.launcher_id, root_hash, new_puz_hash,
                               CurrentCoin(singleton_record, a.launcher_id)))

\* lines 429-446, given the latest record
UpdateWithRecord(w, a, singleton_record) ==
    IF ~Owned(w.drv, singleton_record.inner_puzzle_hash) THEN Raise("NotOwned", w)
    ELSE UpdateWithPuzzles(w, a, singleton_record,
                           IF a.root_hash = None THEN singleton_record.root ELSE a.root_hash,
                           IF a.new_puz_hash = None THEN DerivedPH(w.drv + 1) ELSE a.new_puz_hash,
                           IF a.new_puz_hash = None THEN w.drv + 1 ELSE w.drv)

create_update_state_spend(w, a) ==
    LET info == get_spendable_singleton_info(w, a.launcher_id)
    IN  IF info.err # "none" THEN Raise(info.err, w)
        ELSE UpdateWithRecord(w, a, CHOOSE r \in info.record : TRUE)

\* lines 625-634: the records the call inserts, in the order of its awaits
PendingInsertOrder(a, new_singleton_record, second_singleton_record) ==
    IF ~a.add_pending_singleton THEN <<>>
    ELSE IF ~a.announce_new_state THEN <<new_singleton_record>>
    ELSE <<new_singleton_record, second_singleton_record>>

\* the store after the first k of the inserts
InsertedSoFar(db, records, k) ==
    IF k = 0 \/ records = <<>> THEN db
    ELSE IF k = 1 \/ Len(records) = 1 THEN add_singleton_record(db, records[1])
    ELSE add_singleton_record(add_singleton_record(db, records[1]), records[2])

\* lines 463-547: the records of a call that gets as far as the inserts
AuthoredRecords(a, singleton_record, root_hash, new_puz_hash) ==
    PendingInsertOrder(a,
        NewSingletonRecord(singleton_record, a.launcher_id, root_hash, new_puz_hash,
                           CurrentCoin(singleton_record, a.launcher_id),
                           SecondCoin(singleton_record, a.launcher_id, root_hash, new_puz_hash,
                                      CurrentCoin(singleton_record, a.launcher_id)),
                           a.announce_new_state),
        SecondSingletonRecord(singleton_record, a.launcher_id, root_hash, new_puz_hash,
                              CurrentCoin(singleton_record, a.launcher_id),
                              SecondCoin(singleton_record, a.launcher_id, root_hash, new_puz_hash,
                                         CurrentCoin(singleton_record, a.launcher_id))))

\* the awaits at which the task running create_update_state_spend is cancelled:
\* the first one (line 427), the first insert (line 626), the second insert
\* (line 631); what precedes the await has taken effect, the await has not
CancelPoints == {"get_spendable_singleton_info", "add_singleton_record",
                 "add_second_singleton_record"}

\* the inserts that precede a cancellation point
InsertsBefore(point) == IF point = "add_second_singleton_record" THEN 1 ELSE 0

\* create_update_state_spend, for a call that would return, with the task
\* cancelled at the await: CancelledError leaves through the awaits of lines
\* 427-634, none of which is in a try block
create_update_state_spend_cancelled(w, a, point) ==
    LET info == get_spendable_singleton_info(w, a.launcher_id)
        r == create_update_state_spend(w, a)
    IN  IF r.err # "none" \/ point = "get_spendable_singleton_info" THEN w
        ELSE [w EXCEPT
                !.db = InsertedSoFar(@,
                           AuthoredRecords(a, CHOOSE x \in info.record : TRUE,
                               IF a.root_hash = None
                                 THEN (CHOOSE x \in info.record : TRUE).root ELSE a.root_hash,
                               IF a.new_puz_hash = None THEN DerivedPH(w.drv + 1)
                                                        ELSE a.new_puz_hash),
                           InsertsBefore(point)),
                !.drv = r.w.drv]

\* arguments of generate_signed_transaction; coins is a set of coin ids and
\* launcher_id is None or a launcher id
SendArgs(amounts, puzzle_hashes, fee, coins, launcher_id, new_root_hash, add_pending_singleton, announce_new_state, funds) ==
    [amounts |-> amounts, puzzle_hashes |-> puzzle_hashes, fee |-> fee, coins |-> coins,
     launcher_id |-> launcher_id, new_root_hash |-> new_root_hash,
     add_pending_singleton |-> add_pending_singleton,
     announce_new_state |-> announce_new_state, funds |-> funds]

\* lines 671-683 with the destination left to the wallet's next derivation
SendFor_to_own_puzzle_hash(w, s, launcher_id) ==
    IF Len(s.amounts) # 1 \/ Len(s.puzzle_hashes) # 1 THEN Raise("OneDestinationOnly", w)
    ELSE create_update_state_spend(w,
             UpdateArgs(launcher_id, s.new_root_hash, None, <<s.amounts[1]>>,
                        s.fee, s.add_pending_singleton, s.announce_new_state, s.funds))

\* lines 671-683, given the launcher the call is about
SendFor(w, s, launcher_id) ==
    IF Len(s.amounts) # 1 \/ Len(s.puzzle_hashes) # 1 THEN Raise("OneDestinationOnly", w)
    ELSE create_update_state_spend(w,
             UpdateArgs(launcher_id, s.new_root_hash, s.puzzle_hashes[1], <<s.amounts[1]>>,
                        s.fee, s.add_pending_singleton, s.announce_new_state, s.funds))

generate_signed_transaction(w, s) ==
    IF s.coins = {}
      THEN IF s.launcher_id = None THEN Raise("NotEnoughInfo", w)
           ELSE SendFor(w, s, s.launcher_id)
    ELSE IF Cardinality(s.coins) # 1 THEN Raise("OneCoinOnly", w)
    ELSE IF get_singleton_record(w.db, CHOOSE c \in s.coins : TRUE) = {}
      THEN Raise("NotTrackedCoin", w)
    ELSE SendFor(w, s, (CHOOSE r \in get_singleton_record(w.db, CHOOSE c \in s.coins : TRUE) :
                            TRUE).launcher_id)

\* ------------------------------------------------------------------ launching
\* launch_solution_to_singleton_info(solution)
LaunchSolution(full_puzhash, amount, root, inner_puzhash) ==
    [full_puzhash |-> full_puzhash, amount |-> amount, root |-> root,
     inner_puzhash |-> inner_puzhash]

LauncherSpend(coin, solution) == [coin |-> coin, solution |-> solution]

\* lines 257-303 with the branch of lines 261-265 never taken
new_launcher_spend_without_promotion(w, launcher_spend, height) ==
    LET launcher_id == LauncherRowId(launcher_spend.coin)
        sol == launcher_spend.solution
        new_singleton == CoinName(launcher_id, sol.full_puzhash, sol.amount)
        timestamp == get_timestamp_for_height(height)
    IN  IF get_latest_singleton(w.db, launcher_id, FALSE) # {} THEN w
        ELSE [w EXCEPT
                !.db = add_singleton_record(@,
                   SingletonRecord(new_singleton, launcher_id, sol.root, sol.inner_puzhash,
                                   TRUE, height, timestamp,
                                   LineageProof(launcher_id,
                                                create_host_layer_puzzle(sol.inner_puzhash, sol.root),
                                                sol.amount),
                                   0)),
                !.launchers = @ \cup {launcher_spend.coin},
                !.interested_puzzle_hashes = @ \cup {launcher_id},
                !.interested_coin_ids = @ \cup {new_singleton},
                !.coins = add_coin_record(@, new_singleton, height)]

\* lines 257-303 with the record written again, one generation up, where
\* line 268 returns
new_launcher_spend_counts_generations(w, launcher_spend, height) ==
    LET launcher_id == LauncherRowId(launcher_spend.coin)
        sol == launcher_spend.solution
        new_singleton == CoinName(launcher_id, sol.full_puzhash, sol.amount)
        latest == get_latest_singleton(w.db, launcher_id, FALSE)
        timestamp == get_timestamp_for_height(height)
        Registered(db) ==
            [w EXCEPT !.db = db,
                      !.launchers = @ \cup {launcher_spend.coin},
                      !.interested_puzzle_hashes = @ \cup {launcher_id},
                      !.interested_coin_ids = @ \cup {new_singleton},
                      !.coins = add_coin_record(@, new_singleton, height)]
    IN  IF latest # {}
          THEN LET singleton_record == CHOOSE r \in latest : TRUE
               IN  IF singleton_record.coin_id = new_singleton /\ ~singleton_record.confirmed
                     THEN Registered(set_confirmed(w.db, singleton_record.coin_id,
                                                   height, timestamp))
                     ELSE Registered(add_singleton_record(w.db,
                              [singleton_record EXCEPT !.generation = @ + 1]))
          ELSE Registered(add_singleton_record(w.db,
                   SingletonRecord(new_singleton, launcher_id, sol.root, sol.inner_puzhash,
                                   TRUE, height, timestamp,
                                   LineageProof(launcher_id,
                                                create_host_layer_puzzle(sol.inner_puzhash, sol.root),
                                                sol.amount),
                                   0)))

\* lines 257-303 without the add_launcher of line 290
new_launcher_spend_without_launcher_row(w, launcher_spend, height) ==
    LET launcher_id == LauncherRowId(launcher_spend.coin)
        sol == launcher_spend.solution
        new_singleton == CoinName(launcher_id, sol.full_puzhash, sol.amount)
        latest == get_latest_singleton(w.db, launcher_id, FALSE)
        timestamp == get_timestamp_for_height(height)
        Registered(db) ==
            [w EXCEPT !.db = db,
                      !.launchers = @,
                      !.interested_puzzle_hashes = @ \cup {launcher_id},
                      !.interested_coin_ids = @ \cup {new_singleton},
                      !.coins = add_coin_record(@, new_singleton, height)]
    IN  IF latest # {}
          THEN LET singleton_record == CHOOSE r \in latest : TRUE
               IN  IF singleton_record.coin_id = new_singleton /\ ~singleton_record.confirmed
                     THEN Registered(set_confirmed(w.db, singleton_record.coin_id,
                                                   height, timestamp))
                     ELSE w
          ELSE Registered(add_singleton_record(w.db,
                   SingletonRecord(new_singleton, launcher_id, sol.root, sol.inner_puzhash,
                                   TRUE, height, timestamp,
                                   LineageProof(launcher_id,
                                                create_host_layer_puzzle(sol.inner_puzhash, sol.root),
                                                sol.amount),
                                   0)))

new_launcher_spend(w, launcher_spend, height) ==
    LET launcher_id == LauncherRowId(launcher_spend.coin)
        sol == launcher_spend.solution
        new_singleton == CoinName(launcher_id, sol.full_puzhash, sol.amount)
        latest == get_latest_singleton(w.db, launcher_id, FALSE)
        timestamp == get_timestamp_for_height(height)
        Registered(db) ==
            [w EXCEPT !.db = db,
                      !.launchers = @ \cup {launcher_spend.coin},
                      !.interested_puzzle_hashes = @ \cup {launcher_id},
                      !.interested_coin_ids = @ \cup {new_singleton},
                      !.coins = add_coin_record(@, new_singleton, height)]
    IN  IF latest # {}
          THEN LET singleton_record == CHOOSE r \in latest : TRUE
               IN  IF singleton_record.coin_id = new_singleton /\ ~singleton_record.confirmed
                     THEN Registered(set_confirmed(w.db, singleton_record.coin_id,
                                                   height, timestamp))
                     ELSE w
          ELSE Registered(add_singleton_record(w.db,
                   SingletonRecord(new_singleton, launcher_id, sol.root, sol.inner_puzhash,
                                   TRUE, height, timestamp,
                                   LineageProof(launcher_id,
                                                create_host_layer_puzzle(sol.inner_puzhash, sol.root),
                                                sol.amount),
                                   0)))

\* the launcher solution generate_new_reporter writes for a new singleton
GenesisSolution(launcher_id, initial_root, inner_puzzle) ==
    LaunchSolution(create_host_fullpuz(inner_puzzle, initial_root, launcher_id), 1,
                   initial_root, inner_puzzle)

\* generate_new_reporter with the origin coin select_coins returned
generate_new_reporter(w, initial_root, fee, origin) ==
    LET launcher_coin == LauncherCoin(origin)
        launcher_id == LauncherRowId(launcher_coin)
        inner_puzzle == DerivedPH(w.drv + 1)
        full_puzzle == create_host_fullpuz(inner_puzzle, initial_root, launcher_id)
        singleton_coin == CoinName(launcher_id, full_puzzle, 1)
        std_spend == CoinSpend(origin, <<>>)
        launcher_cs == CoinSpend(launcher_id, <<CreateCoin(full_puzzle, 1, <<>>)>>)
        std_record ==
            TransactionRecord(<<"stdtx", launcher_id>>, "std", fee, NoBundle,
                              {launcher_id}, {origin})
        dl_record ==
            TransactionRecord(<<"sb", launcher_id>>, "0", fee,
                              SpendBundle(<<std_spend, launcher_cs>>, fee),
                              {launcher_id, singleton_coin}, {origin, launcher_id})
        singleton_record ==
            SingletonRecord(singleton_coin, launcher_id, initial_root, inner_puzzle,
                            FALSE, 0, 0,
                            LineageProof(launcher_id,
                                         create_host_layer_puzzle(inner_puzzle, initial_root), 1),
                            0)
    IN  [w |-> [w EXCEPT !.db = add_singleton_record(@, singleton_record),
                         !.drv = @ + 1,
                         !.interested_puzzle_hashes = @ \cup {launcher_id}],
         txs |-> <<dl_record, std_record>>]

\* lines 908-910 with the records and rows of every launcher deleted
stop_tracking_singleton_of_all(w, launcher_id) ==
    [w EXCEPT !.db = {}, !.launchers = {}]

\* lines 908-910 without the deletion of line 909
stop_tracking_singleton_keeps_records(w, launcher_id) ==
    [w EXCEPT !.launchers = {c \in @ : LauncherRowId(c) # launcher_id}]

stop_tracking_singleton(w, launcher_id) ==
    [w EXCEPT !.db = delete_singleton_records_by_launcher_id(@, launcher_id),
              !.launchers = {c \in @ : LauncherRowId(c) # launcher_id}]

\* --------------------------------------------------------- adopting a launcher
\* what the node answers get_coin_state([launcher_id]) with; a height the coin
\* state lacks is None, one it has is <<h>>
CoinState(coin, created_height, spent_height) ==
    [coin |-> coin, created_height |-> created_height, spent_height |-> spent_height]

\* lines 173-185 without the test of line 178
get_launcher_coin_state_without_puzzle_test(coin_states) ==
    IF Len(coin_states) = 0 THEN [err |-> "NotACoin", state |-> <<>>]
    ELSE IF coin_states[1].created_height = None THEN [err |-> "NotCreated", state |-> <<>>]
    ELSE IF coin_states[1].spent_height = None THEN [err |-> "NotSpent", state |-> <<>>]
    ELSE [err |-> "none", state |-> <<coin_states[1]>>]

\* get_launcher_coin_state, given the node's answer
get_launcher_coin_state(coin_states) ==
    IF Len(coin_states) = 0 THEN [err |-> "NotACoin", state |-> <<>>]
    ELSE IF coin_states[1].coin.puzzle_hash # SINGLETON_LAUNCHER_HASH
      THEN [err |-> "NotALauncher", state |-> <<>>]
    ELSE IF coin_states[1].created_height = None THEN [err |-> "NotCreated", state |-> <<>>]
    ELSE IF coin_states[1].spent_height = None THEN [err |-> "NotSpent", state |-> <<>>]
    ELSE [err |-> "none", state |-> <<coin_states[1]>>]

\* lines 201-215: the data of the request_puzzle_solution action
PuzzleSolutionAction(launcher_id, launcher_state) ==
    [name |-> "request_puzzle_solution", callback |-> "new_launcher_spend_response",
     height |-> launcher_state.spent_height[1], coin_name |-> launcher_id,
     launcher_coin |-> launcher_state.coin]

\* what track_new_launcher_id returns to the model: the error kind, the world
\* after the call, the actions it created and the chain queries it made
Tracked_result(e, world, actions, queries) ==
    [err |-> e, w |-> world, actions |-> actions, queries |-> queries]

\* lines 197-226, given the node's answer
RequestSolution(w, launcher_id, answer) ==
    IF answer.err # "none" THEN Tracked_result(answer.err, w, <<>>, 1)
    ELSE Tracked_result("none", w, <<PuzzleSolutionAction(launcher_id, answer.state[1])>>, 1)

\* lines 187-226 without the test of line 194
track_new_launcher_id_without_known_test(w, launcher_id, spend, height, coin_states) ==
    IF spend # None /\ LauncherRowId(spend[1].coin) = launcher_id
      THEN Tracked_result("none", new_launcher_spend(w, spend[1], height), <<>>, 0)
    ELSE RequestSolution(w, launcher_id, get_launcher_coin_state(coin_states))

\* track_new_launcher_id; spend is None or <<spend>>, and a caller that passes
\* a spend passes its height
track_new_launcher_id(w, launcher_id, spend, height, coin_states) ==
    IF get_launcher(w.launchers, launcher_id) # {} THEN Tracked_result("none", w, <<>>, 0)
    ELSE IF spend # None /\ LauncherRowId(spend[1].coin) = launcher_id
      THEN Tracked_result("none", new_launcher_spend(w, spend[1], height), <<>>, 0)
    ELSE RequestSolution(w, launcher_id, get_launcher_coin_state(coin_states))

\* new_launcher_spend_response: the launcher coin is read from the action and
\* the solution and the height from the node's response
new_launcher_spend_response(w, action, solution, height) ==
    new_launcher_spend(w, LauncherSpend(action.launcher_coin, solution), height)

\* ------------------------------------------------------- fork detector / rebase
\* lines 855-863: the transactions named by the parents of the pending records
RECURSIVE RelevantDlTxs(_, _)
RelevantDlTxs(txs, singletons) ==
    IF singletons = <<>> THEN <<>>
    ELSE LET parent_name == Head(singletons).lineage_proof.parent_name
             tx == get_transaction_record(txs, parent_name)
         IN  (IF parent_name # None /\ tx # {} THEN <<CHOOSE t \in tx : TRUE>> ELSE <<>>)
             \o RelevantDlTxs(txs, Tail(singletons))

\* lines 884-886: the (singleton, tx) pairs of the nested loops for which the
\* transaction's additions contain the singleton's coin, in loop order
RECURSIVE RebaseCalls(_, _)
RebaseCalls(singletons, relevant_dl_txs) ==
    IF singletons = <<>> THEN <<>>
    ELSE SelectSeq([i \in DOMAIN relevant_dl_txs |->
                        [singleton |-> Head(singletons), tx |-> relevant_dl_txs[i]]],
                   LAMBDA c : c.singleton.coin_id \in c.tx.additions)
         \o RebaseCalls(Tail(singletons), relevant_dl_txs)

\* lines 887-890: the fee of the original bundle
RebaseFee(tx) == IF tx.spend_bundle.present THEN tx.spend_bundle.fees ELSE 0

\* lines 883-899: the re-authoring loop; it stops at the first exception
RECURSIVE RebaseLoop(_, _, _, _, _)
RECURSIVE RebaseStep(_, _, _, _, _)
RebaseStep(r, calls, all_txs, launcher_id, funds) ==
    IF r.err # "none" THEN [err |-> r.err, w |-> r.w, txs |-> all_txs]
    ELSE RebaseLoop(r.w, Tail(calls), all_txs \o r.txs, launcher_id, funds)

RebaseLoop(w, calls, all_txs, launcher_id, funds) ==
    IF calls = <<>> THEN [err |-> "none", w |-> w, txs |-> all_txs]
    ELSE IF RebaseFee(Head(calls).tx) < 0 THEN [err |-> "ValueError", w |-> w, txs |-> all_txs]
    ELSE RebaseStep(create_update_state_spend(w,
                        UpdateArgs(launcher_id, Head(calls).singleton.root, None, None,
                                   RebaseFee(Head(calls).tx), TRUE, FALSE, funds)),
                    calls, all_txs, launcher_id, funds)

\* delete_singleton_record for each listed record and for its lineage parent
RECURSIVE DeleteSingletons_with_parents(_, _)
DeleteSingletons_with_parents(db, singletons) ==
    IF singletons = <<>> THEN db
    ELSE DeleteSingletons_with_parents(
             delete_singleton_record(delete_singleton_record(db, Head(singletons).coin_id),
                                     Head(singletons).lineage_proof.parent_name),
             Tail(singletons))

RECURSIVE DeleteSingletons(_, _)
DeleteSingletons(db, singletons) ==
    IF singletons = <<>> THEN db
    ELSE DeleteSingletons(delete_singleton_record(db, Head(singletons).coin_id),
                          Tail(singletons))

\* lines 832-851 without the comparison of line 840
ForkKind_without_same_test(w, launcher_id) ==
    LET pending == get_unconfirmed_singletons(w.db, launcher_id)
        unconfirmed_singletons == SortByGeneration(pending)
        full_branch == get_all_singletons_for_launcher(w.db, launcher_id,
                                                       unconfirmed_singletons[1].generation)
        parent_singleton ==
            get_singleton_record(w.db, unconfirmed_singletons[1].lineage_proof.parent_name)
    IN  IF pending = {} THEN "none"
        ELSE IF \/ parent_singleton = {}
                \/ \E s \in full_branch :
                      s.confirmed /\ (CHOOSE p \in parent_singleton : TRUE).root # s.root
          THEN "root_changed"
        ELSE "rebase"

\* the decision of lines 832-851: "none" (nothing pending), "same" (no fork),
\* "root_changed" or "rebase"
ForkKind(w, launcher_id) ==
    LET pending == get_unconfirmed_singletons(w.db, launcher_id)
        unconfirmed_singletons == SortByGeneration(pending)
        full_branch == get_all_singletons_for_launcher(w.db, launcher_id,
                                                       unconfirmed_singletons[1].generation)
        parent_singleton ==
            get_singleton_record(w.db, unconfirmed_singletons[1].lineage_proof.parent_name)
    IN  IF pending = {} THEN "none"
        ELSE IF pending = full_branch THEN "same"
        ELSE IF \/ parent_singleton = {}
                \/ \E s \in full_branch :
                      s.confirmed /\ (CHOOSE p \in parent_singleton : TRUE).root # s.root
          THEN "root_changed"
        ELSE "rebase"

\* lines 900-906: enqueue the transactions, or on an exception delete the
\* records of the list read at line 832
FinishRebase(attempt, unconfirmed_singletons) ==
    IF attempt.err = "none"
      THEN [attempt.w EXCEPT !.txs = add_pending_transactions(@, attempt.txs)]
      ELSE [attempt.w EXCEPT !.db = DeleteSingletons(@, unconfirmed_singletons)]

\* lines 865-872: the standard wallet's unconfirmed transactions that spend a
\* coin one of the relevant bundles spends
RelevantStdTxs(txs, relevant_dl_txs) ==
    LET all_removal_ids ==
            UNION {BundleRemovals(relevant_dl_txs[i].spend_bundle.coin_spends) :
                     i \in {j \in DOMAIN relevant_dl_txs : relevant_dl_txs[j].spend_bundle.present}}
    IN  {t \in get_unconfirmed_for_wallet(txs, "std") : t.removals \cap all_removal_ids # {}}

\* lines 853-878 without the standard wallet's transactions
DeletePending_dl_only(w, unconfirmed_singletons, relevant_dl_txs) ==
    [w EXCEPT !.txs = {t \in @ : t.name \notin {relevant_dl_txs[i].name :
                                                   i \in DOMAIN relevant_dl_txs}},
              !.db = DeleteSingletons(@, unconfirmed_singletons)]

\* lines 853-878: the pending records and their transactions are deleted
DeletePending(w, unconfirmed_singletons, relevant_dl_txs) ==
    LET deleted_names ==
            {relevant_dl_txs[i].name : i \in DOMAIN relevant_dl_txs}
                \cup {t.name : t \in RelevantStdTxs(w.txs, relevant_dl_txs)}
    IN  [w EXCEPT !.txs = {t \in @ : t.name \notin deleted_names},
                  !.db = DeleteSingletons(@, unconfirmed_singletons)]

\* lines 880-901 without the test of line 880
Resubmit_always_rebase(w, launcher_id, funds, root_changed, unconfirmed_singletons, relevant_dl_txs) ==
    FinishRebase(RebaseLoop(DeletePending(w, unconfirmed_singletons, relevant_dl_txs),
                            RebaseCalls(unconfirmed_singletons, relevant_dl_txs),
                            <<>>, launcher_id, funds),
                 unconfirmed_singletons)

\* lines 853-906, given the pending records and their transactions
Resubmit(w, launcher_id, funds, root_changed, unconfirmed_singletons, relevant_dl_txs) ==
    IF root_changed THEN DeletePending(w, unconfirmed_singletons, relevant_dl_txs)
    ELSE FinishRebase(RebaseLoop(DeletePending(w, unconfirmed_singletons, relevant_dl_txs),
                                 RebaseCalls(unconfirmed_singletons, relevant_dl_txs),
                                 <<>>, launcher_id, funds),
                      unconfirmed_singletons)

\* potentially_handle_resubmit without the return of line 841
potentially_handle_resubmit_on_same(w, launcher_id, funds) ==
    IF ForkKind(w, launcher_id) = "none" THEN w
    ELSE Resubmit(w, launcher_id, funds, ForkKind(w, launcher_id) = "root_changed",
                  SortByGeneration(get_unconfirmed_singletons(w.db, launcher_id)),
                  RelevantDlTxs(w.txs, SortByGeneration(get_unconfirmed_singletons(w.db, launcher_id))))

\* potentially_handle_resubmit; funds says whether the standard wallet can pay a fee
potentially_handle_resubmit(w, launcher_id, funds) ==
    IF ForkKind(w, launcher_id) \in {"none", "same"} THEN w
    ELSE Resubmit(w, launcher_id, funds, ForkKind(w, launcher_id) = "root_changed",
                  SortByGeneration(get_unconfirmed_singletons(w.db, launcher_id)),
                  RelevantDlTxs(w.txs, SortByGeneration(get_unconfirmed_singletons(w.db, launcher_id))))

\* ------------------------------------------------- the detector, cancelled
\* a set as a list, in the order the store returns it
RECURSIVE StoreOrder(_)
StoreOrder(S) ==
    IF S = {} THEN <<>>
    ELSE LET x == CHOOSE y \in S : TRUE IN <<x>> \o StoreOrder(S \ {x})

\* lines 874-878: the deletions in the order of their awaits: the singleton's
\* transactions, the standard wallet's, then the pending records
DeletionSteps(w, unconfirmed_singletons, relevant_dl_txs) ==
    [i \in DOMAIN relevant_dl_txs |-> [kind |-> "tx", name |-> relevant_dl_txs[i].name]]
    \o [i \in DOMAIN StoreOrder(RelevantStdTxs(w.txs, relevant_dl_txs)) |->
           [kind |-> "tx", name |-> StoreOrder(RelevantStdTxs(w.txs, relevant_dl_txs))[i].name]]
    \o [i \in DOMAIN unconfirmed_singletons |->
           [kind |-> "record", name |-> unconfirmed_singletons[i].coin_id]]

\* the world after the first k deletions
RECURSIVE DeleteSoFar(_, _, _)
DeleteSoFar(w, steps, k) ==
    IF k = 0 \/ steps = <<>> THEN w
    ELSE DeleteSoFar(IF Head(steps).kind = "tx"
                       THEN [w EXCEPT !.txs = {t \in @ : t.name # Head(steps).name}]
                       ELSE [w EXCEPT !.db = delete_singleton_record(@, Head(steps).name)],
                     Tail(steps), k - 1)

\* lines 853-901 with the task cancelled at an await: at the k-th deletion, or,
\* past the deletions, at the first add_pending_transaction of line 901;
\* a CancelledError that `except Exception` catches only repeats deletions
ResubmitCancelled(w, launcher_id, funds, root_changed, unconfirmed_singletons, relevant_dl_txs, k) ==
    IF k < Len(DeletionSteps(w, unconfirmed_singletons, relevant_dl_txs)) \/ root_changed
      THEN DeleteSoFar(w, DeletionSteps(w, unconfirmed_singletons, relevant_dl_txs), k)
      ELSE RebaseLoop(DeletePending(w, unconfirmed_singletons, relevant_dl_txs),
                      RebaseCalls(unconfirmed_singletons, relevant_dl_txs),
                      <<>>, launcher_id, funds).w

\* the awaits at which a run of the detector that found a fork can be cancelled
ResubmitCancelPoints(w, launcher_id) ==
    0 .. Len(DeletionSteps(w, SortByGeneration(get_unconfirmed_singletons(w.db, launcher_id)),
                           RelevantDlTxs(w.txs, SortByGeneration(
                               get_unconfirmed_singletons(w.db, launcher_id)))))

\* potentially_handle_resubmit with the task cancelled after the fork was found
potentially_handle_resubmit_cancelled(w, launcher_id, funds, k) ==
    IF ForkKind(w, launcher_id) \in {"none", "same"} THEN w
    ELSE ResubmitCancelled(w, launcher_id, funds, ForkKind(w, launcher_id) = "root_changed",
             SortByGeneration(get_unconfirmed_singletons(w.db, launcher_id)),
             RelevantDlTxs(w.txs, SortByGeneration(get_unconfirmed_singletons(w.db, launcher_id))),
             k)

\* ----------------------------------------------------------------------- sync
\* lines 767-786 without the parity test of line 769
RECURSIVE ScanConditions_any_amount(_)
ScanConditions_any_amount(conditions) ==
    IF conditions = <<>> THEN [kind |-> "melted", condition |-> <<>>]
    ELSE LET c == Head(conditions)
         IN  IF c.opcode = CREATE_COIN
               THEN IF Len(c.memos) < 3
                      THEN [kind |-> "no_hint", condition |-> <<>>]
                      ELSE [kind |-> "found", condition |-> <<c>>]
               ELSE ScanConditions_any_amount(Tail(conditions))

\* lines 767-786 with the scan going on after the IndexError of lines 772-774
RECURSIVE ScanConditions_skip_unhinted(_)
ScanConditions_skip_unhinted(conditions) ==
    IF conditions = <<>> THEN [kind |-> "melted", condition |-> <<>>]
    ELSE LET c == Head(conditions)
         IN  IF c.opcode = CREATE_COIN /\ c.amount % 2 = 1 /\ Len(c.memos) >= 3
               THEN [kind |-> "found", condition |-> <<c>>]
               ELSE ScanConditions_skip_unhinted(Tail(conditions))

\* lines 767-786 without the break of line 782
RECURSIVE ScanConditions_without_break(_)
ScanConditions_without_break(conditions) ==
    IF conditions = <<>> THEN [kind |-> "melted", condition |-> <<>>]
    ELSE LET c == Head(conditions)
         IN  IF c.opcode = CREATE_COIN /\ c.amount % 2 = 1
               THEN IF Len(c.memos) < 3
                      THEN [kind |-> "no_hint", condition |-> <<>>]
                    ELSE IF ScanConditions_without_break(Tail(conditions)).kind = "found"
                      THEN ScanConditions_without_break(Tail(conditions))
                    ELSE [kind |-> "found", condition |-> <<c>>]
               ELSE ScanConditions_without_break(Tail(conditions))

\* lines 767-786: the scan of the conditions; "found", "no_hint" or "melted"
RECURSIVE ScanConditions(_)
ScanConditions(conditions) ==
    IF conditions = <<>> THEN [kind |-> "melted", condition |-> <<>>]
    ELSE LET c == Head(conditions)
         IN  IF c.opcode = CREATE_COIN /\ c.amount % 2 = 1
               THEN IF Len(c.memos) < 3
                      THEN [kind |-> "no_hint", condition |-> <<>>]
                      ELSE [kind |-> "found", condition |-> <<c>>]
               ELSE ScanConditions(Tail(conditions))

\* match_dl_singleton(puzzle): the puzzle is a DataLayer singleton
match_dl_singleton(coin) == Len(coin) = 4 /\ coin[3][1] = "full"

\* what singleton_removed does before it reaches the fork detector
SyncOutcome(w, parent_spend) ==
    IF ~match_dl_singleton(parent_spend.coin) THEN "not_dl"
    ELSE IF get_singleton_record(w.db, parent_spend.coin) = {} THEN "unknown_parent"
    ELSE ScanConditions(parent_spend.conditions).kind

\* line 773: the root is the second memo of the successor's CREATE_COIN
HintedRoot_first_memo(condition) == condition.memos[1]

HintedRoot(condition) == condition.memos[2]

\* line 774: the inner puzzle hash is the third memo
HintedInnerPuzzleHash(condition) == condition.memos[3]

\* line 804: the successor's generation
SuccessorGeneration_of_parent(singleton_record) == singleton_record.generation

SuccessorGeneration(singleton_record) == singleton_record.generation + 1

\* singleton_removed up to and including add_interested_coin_ids (lines 744-822)
InsertSuccessor(w, parent_spend, height) ==
    LET parent_name == parent_spend.coin
        singleton_record == CHOOSE r \in get_singleton_record(w.db, parent_name) : TRUE
        c == ScanConditions(parent_spend.conditions).condition[1]
        full_puzzle_hash == c.puzzle_hash
        amount == c.amount
        root == HintedRoot(c)
        inner_puzzle_hash == HintedInnerPuzzleHash(c)
        new_singleton == CoinName(parent_name, full_puzzle_hash, amount)
    IN  [w EXCEPT
            !.db = add_singleton_record(@,
                       SingletonRecord(new_singleton, singleton_record.launcher_id, root,
                                       inner_puzzle_hash, TRUE, height,
                                       get_timestamp_for_height(height),
                                       LineageProof(parent_name,
                                                    create_host_layer_puzzle(inner_puzzle_hash, root),
                                                    amount),
                                       SuccessorGeneration(singleton_record))),
            !.coins = add_coin_record(@, new_singleton, height),
            !.interested_coin_ids = @ \cup {new_singleton}]

\* singleton_removed with a coin record written before the test of line 754
singleton_removed_records_coin_first(w, parent_spend, height, funds) ==
    IF SyncOutcome(w, parent_spend) = "unknown_parent"
      THEN [w EXCEPT !.coins = add_coin_record(@, parent_spend.coin, height)]
    ELSE IF SyncOutcome(w, parent_spend) # "found" THEN w
    ELSE LET launcher_id ==
                 (CHOOSE r \in get_singleton_record(w.db, parent_spend.coin) : TRUE).launcher_id
         IN  potentially_handle_resubmit(InsertSuccessor(w, parent_spend, height),
                                         launcher_id, funds)

\* singleton_removed with the detector of line 823 run before the successor is stored
singleton_removed_detector_first(w, parent_spend, height, funds) ==
    IF SyncOutcome(w, parent_spend) # "found" THEN w
    ELSE LET launcher_id ==
                 (CHOOSE r \in get_singleton_record(w.db, parent_spend.coin) : TRUE).launcher_id
         IN  InsertSuccessor(potentially_handle_resubmit(w, launcher_id, funds),
                             parent_spend, height)

singleton_removed(w, parent_spend, height, funds) ==
    IF SyncOutcome(w, parent_spend) # "found" THEN w
    ELSE LET launcher_id ==
                 (CHOOSE r \in get_singleton_record(w.db, parent_spend.coin) : TRUE).launcher_id
         IN  potentially_handle_resubmit(InsertSuccessor(w, parent_spend, height),
                                         launcher_id, funds)

\* ---------------------------------------------------------------------- state
VARIABLES
    singleton_records,          \* dl_store: singleton rows
    launchers,                  \* dl_store: launcher rows
    tx_store,                   \* transaction store
    derivation_index,           \* number of puzzle hashes the wallet has derived
    coin_store,                 \* wallet coin records
    interested_coin_ids,        \* interest registry
    interested_puzzle_hashes,
    chain_launch,               \* launcher spends: their solution and block height
    chain_tips,                 \* unspent singleton coins on chain
    peak,                       \* height of the last block seen
    feature,                    \* the optional feature this run of the wallet exercises
    wallet_actions,             \* action store: the pending wallet actions
    last                        \* the last operation and its outcome

vars == <<singleton_records, launchers, tx_store, derivation_index, coin_store,
          interested_coin_ids, interested_puzzle_hashes, chain_launch, chain_tips,
          peak, feature, wallet_actions, last>>

\* what an operation of the wallet leaves alone
wallet_frame == <<chain_launch, chain_tips, peak, feature, wallet_actions>>

\* every behaviour exercises the core operations and at most one optional feature:
\* fees, a changed amount, a transfer to a foreign puzzle hash, stopping the
\* tracking of a launcher, taking it up again, generate_signed_transaction, or
\* the cancellation of an update
Features == {"plain", "fee", "amount", "transfer", "stop", "send", "track", "cancel"}

Now == World(singleton_records, launchers, tx_store, derivation_index, coin_store,
             interested_coin_ids, interested_puzzle_hashes)

Becomes(w) ==
    /\ singleton_records' = w.db
    /\ launchers' = w.launchers
    /\ tx_store' = w.txs
    /\ derivation_index' = w.drv
    /\ coin_store' = w.coins
    /\ interested_coin_ids' = w.interested_coin_ids
    /\ interested_puzzle_hashes' = w.interested_puzzle_hashes

\* op: the operation; err: its error kind or outcome; tags: what it was given
Last(op, err, launcher_id, tags) ==
    [op |-> op, err |-> err, launcher_id |-> launcher_id, tags |-> tags]

\* the standard wallet has derived its first puzzle hash before any singleton exists
Init ==
    /\ singleton_records = {}
    /\ launchers = {}
    /\ tx_store = {}
    /\ derivation_index = 1
    /\ coin_store = {}
    /\ interested_coin_ids = {}
    /\ interested_puzzle_hashes = {}
    /\ chain_launch = {}
    /\ chain_tips = {}
    /\ peak = 0
    /\ feature \in Features
    /\ wallet_actions = <<>>
    /\ last = Last("init", "none", None, <<>>)

\* ------------------------------------------------------------ chain environment
\* the launcher a singleton coin belongs to, read off its full puzzle hash
LauncherOf(coin) == coin[3][4]

\* the inner puzzle hash of a singleton coin
InnerOf(coin) == coin[3][2]

\* the first odd CREATE_COIN of a spend is the singleton's successor on chain
Successor(parent_spend) ==
    LET odd == SelectSeq(parent_spend.conditions,
                         LAMBDA c : c.opcode = CREATE_COIN /\ c.amount % 2 = 1)
    IN  IF odd = <<>> THEN {}
        ELSE {CoinName(parent_spend.coin, odd[1].puzzle_hash, odd[1].amount)}

\* a properly hinted successor
Hinted(inner, root, amount, launcher_id) ==
    CreateCoin(create_host_fullpuz(inner, root, launcher_id), amount,
               <<launcher_id, root, inner>>)

\* conditions a party other than this wallet may solve a singleton coin with
ForeignSuccessors(launcher_id) ==
    {Hinted(DerivedPH(1), <<"R0">>, 1, launcher_id),
     Hinted(DerivedPH(1), <<"R1">>, 1, launcher_id)}
    \cup (IF feature = "transfer" THEN {Hinted(ForeignPH, <<"R0">>, 1, launcher_id)} ELSE {})
    \cup (IF feature = "amount" THEN {Hinted(DerivedPH(1), <<"R0">>, 3, launcher_id)} ELSE {})

Unhinted(launcher_id) ==
    CreateCoin(create_host_fullpuz(ForeignPH, <<"R0">>, launcher_id), 1, <<launcher_id>>)

EvenCoin == CreateCoin(ForeignPH, 2, <<>>)

ForeignSolutions(launcher_id) ==
    {<<c>> : c \in ForeignSuccessors(launcher_id)}
    \cup {<<EvenCoin, c>> : c \in ForeignSuccessors(launcher_id)}
    \cup {<<EvenCoin>>,
          <<Unhinted(launcher_id)>>,
          <<Unhinted(launcher_id), Hinted(DerivedPH(1), <<"R0">>, 1, launcher_id)>>,
          <<Hinted(DerivedPH(1), <<"R0">>, 1, launcher_id),
            Hinted(ForeignPH, <<"R1">>, 1, launcher_id)>>}

\* the spends of a coin that this wallet has authored and handed to the network
AuthoredSpends(coin) ==
    UNION {{t.spend_bundle.coin_spends[i] :
                i \in {j \in DOMAIN t.spend_bundle.coin_spends :
                         t.spend_bundle.coin_spends[j].coin = coin}} :
           t \in tx_store}

\* the only solution of an ephemeral coin: its inner puzzle is a constant
AnnounceSpend(coin) ==
    LET inner == InnerOf(coin)
    IN  CoinSpend(coin,
                  <<CreateCoin(create_host_fullpuz(inner[2], inner[5], inner[4]), inner[3],
                               <<inner[4], inner[5], inner[2]>>),
                    OtherCondition(CREATE_PUZZLE_ANNOUNCEMENT)>>)

\* the spends the chain can confirm for an unspent singleton coin
ChainSpends(coin) ==
    IF InnerOf(coin)[1] = "announce" THEN {AnnounceSpend(coin)}
    ELSE AuthoredSpends(coin)
         \cup {CoinSpend(coin, s) : s \in ForeignSolutions(LauncherOf(coin))}

\* -------------------------------------------------------------------- actions
\* the launcher spend the chain holds, or can hold, for a launcher coin
LaunchChoices(launcher_id) ==
    IF \E l \in chain_launch : l.launcher_id = launcher_id
      THEN {l \in chain_launch : l.launcher_id = launcher_id}
      ELSE {[launcher_id |-> launcher_id,
             solution |-> LaunchSolution(create_host_fullpuz(i, <<"R0">>, launcher_id), m,
                                         <<"R0">>, i),
             height |-> 0] :
                <<i, m>> \in {<<DerivedPH(1), 1>>}
                    \cup (IF feature = "amount" THEN {<<DerivedPH(1), 3>>} ELSE {})
                    \cup (IF feature = "transfer" THEN {<<ForeignPH, 1>>} ELSE {})}

\* a launcher spend is confirmed (or observed again) and new_launcher_spend runs
NewLauncherSpend ==
    \E origin \in OriginCoins :
      \E l \in LaunchChoices(LauncherId(origin)) :
        LET launcher_id == LauncherId(origin)
            first == l.height = 0
            height == IF first THEN peak + 1 ELSE l.height
            spend == LauncherSpend(LauncherCoin(origin), l.solution)
            genesis == CoinName(launcher_id, l.solution.full_puzhash, l.solution.amount)
        IN  /\ first => peak < MaxHeight
            /\ Becomes(new_launcher_spend(Now, spend, height))
            /\ chain_launch' = {x \in chain_launch : x.launcher_id # launcher_id}
                                 \cup {[l EXCEPT !.height = height]}
            /\ chain_tips' = IF first THEN chain_tips \cup {genesis} ELSE chain_tips
            /\ peak' = IF first THEN height ELSE peak
            /\ last' = Last("new_launcher_spend", "none", launcher_id,
                            <<IF first THEN "first" ELSE "again">>)
            /\ UNCHANGED <<feature, wallet_actions>>

\* generate_new_reporter, whose caller then enqueues the two transactions; the
\* chain will accept only the launcher solution written here
GenerateNewReporter ==
    \E origin \in OriginCoins, initial_root \in Roots,
       fee \in (IF feature = "fee" THEN {0, 1} ELSE {0}) :
        LET launcher_id == LauncherId(origin)
            r == generate_new_reporter(Now, initial_root, fee, origin)
        IN  /\ derivation_index < MaxDerivations
            /\ ~\E l \in chain_launch : l.launcher_id = launcher_id
            /\ Becomes([r.w EXCEPT !.txs = add_pending_transactions(@, r.txs)])
            /\ chain_launch' = chain_launch \cup
                   {[launcher_id |-> launcher_id,
                     solution |-> GenesisSolution(launcher_id, initial_root,
                                                  DerivedPH(derivation_index + 1)),
                     height |-> 0]}
            /\ UNCHANGED <<chain_tips, peak, feature, wallet_actions>>
            /\ last' = Last("generate_new_reporter", "none", launcher_id, <<>>)

\* the inputs a caller passes to create_update_state_spend
UpdateInputs ==
    {UpdateArgs(LauncherId(origin), root_hash, new_puz_hash, new_amount, fee,
                add_pending, announce, funds) :
        <<origin, root_hash, new_puz_hash, new_amount, fee, add_pending, announce, funds>> \in
            OriginCoins \X {None, <<"R1">>}
                \X (IF feature = "transfer" THEN {None, ForeignPH} ELSE {None})
                \X (IF feature = "amount" THEN {None, <<0>>, <<1>>, <<2>>} ELSE {None})
                \X (IF feature = "fee" THEN {0, 1} ELSE {0})
                \X (IF feature = "track" THEN {TRUE} ELSE BOOLEAN)
                \X (IF feature = "track" THEN {FALSE} ELSE BOOLEAN)
                \X (IF feature = "track" THEN {TRUE} ELSE BOOLEAN)}

\* create_update_state_spend; a caller that asks for the pending record (the
\* update RPC) enqueues the returned transactions, a caller that does not (the
\* offer assembler) keeps them to itself
CreateUpdateStateSpend ==
    \E a \in UpdateInputs :
        LET r == create_update_state_spend(Now, a)
        IN  /\ a.fee = 0 => a.funds
            /\ a.new_puz_hash = None => derivation_index < MaxDerivations
            /\ Becomes(IF a.add_pending_singleton
                         THEN [r.w EXCEPT !.txs = add_pending_transactions(@, r.txs)]
                         ELSE r.w)
            /\ UNCHANGED wallet_frame
            /\ last' = Last("create_update_state_spend", r.err, a.launcher_id,
                            <<a.add_pending_singleton, a.announce_new_state>>)

\* the task running create_update_state_spend is cancelled at one of its awaits
CancelUpdateStateSpend ==
    \E a \in UpdateInputs, point \in CancelPoints :
        /\ feature = "cancel"
        /\ create_update_state_spend(Now, a).err = "none"
        /\ a.new_puz_hash = None => derivation_index < MaxDerivations
        /\ point = "add_singleton_record" => a.add_pending_singleton
        /\ point = "add_second_singleton_record"
              => a.add_pending_singleton /\ a.announce_new_state
        /\ Becomes(create_update_state_spend_cancelled(Now, a, point))
        /\ UNCHANGED wallet_frame
        /\ last' = Last("create_update_state_spend", "Cancelled", a.launcher_id,
                        <<a.add_pending_singleton, a.announce_new_state>>)

\* the coin sets a caller passes to generate_signed_transaction: none, one
\* stored coin, a coin the store does not know, or two coins
SendCoins ==
    {{}, {CoinName(<<"o1">>, ForeignPH, 2)}}
    \cup {{r.coin_id} : r \in singleton_records}
    \cup {{r.coin_id, CoinName(<<"o1">>, ForeignPH, 2)} :
              r \in UNION {get_latest_singleton(singleton_records, l, FALSE) : l \in LauncherIds}}

\* the errors generate_signed_transaction raises itself
SendErrors == {"NotEnoughInfo", "OneCoinOnly", "NotTrackedCoin", "OneDestinationOnly"}

\* the destinations a caller passes to generate_signed_transaction: one amount
\* for one puzzle hash, or amounts and puzzle hashes that are not one of each
OneDestination == <<<<1>>, <<ForeignPH>>>>

OtherDestinations ==
    {<<<<>>, <<ForeignPH>>>>, <<<<1, 1>>, <<ForeignPH>>>>,
     <<<<1>>, <<>>>>, <<<<1>>, <<ForeignPH, ForeignPH>>>>}

\* the inputs a caller passes to generate_signed_transaction
SendInputs ==
    {SendArgs(to[1], to[2], 0, coins, launcher_id, None, TRUE, FALSE, TRUE) :
        <<to, coins, launcher_id>> \in
            ({OneDestination} \X SendCoins \X ({None} \cup LauncherIds))
            \cup (OtherDestinations \X {{}} \X LauncherIds)
            \cup (OtherDestinations \X {{r.coin_id} : r \in singleton_records} \X {None})}

\* generate_signed_transaction, whose caller enqueues the returned transactions
GenerateSignedTransaction ==
    \E s \in SendInputs :
        LET r == generate_signed_transaction(Now, s)
        IN  /\ feature = "send"
            /\ Becomes([r.w EXCEPT !.txs = add_pending_transactions(@, r.txs)])
            /\ UNCHANGED wallet_frame
            /\ last' = Last("generate_signed_transaction",
                            IF r.err \in SendErrors THEN "Rejected" ELSE r.err, None, <<>>)

\* whether the standard wallet can pay a fee matters only if a fee was ever paid
FundsChoices == IF \E t \in tx_store : t.fee_amount > 0 THEN BOOLEAN ELSE {TRUE}

\* a singleton coin is spent on chain and singleton_removed runs for the spend
SingletonRemoved ==
    \E coin \in chain_tips, funds \in FundsChoices :
      \E parent_spend \in ChainSpends(coin) :
        LET outcome == SyncOutcome(Now, parent_spend)
            inserted == InsertSuccessor(Now, parent_spend, peak + 1)
            launcher_id == LauncherOf(coin)
            fork == IF outcome = "found" THEN ForkKind(inserted, launcher_id) ELSE "none"
        IN  /\ peak < MaxHeight
            /\ Becomes(singleton_removed(Now, parent_spend, peak + 1, funds))
            /\ chain_tips' = (chain_tips \ {coin}) \cup Successor(parent_spend)
            /\ peak' = peak + 1
            /\ UNCHANGED <<chain_launch, feature, wallet_actions>>
            /\ last' = Last("singleton_removed", outcome, launcher_id,
                            <<fork, parent_spend \in AuthoredSpends(coin)>>)

\* singleton_removed runs for a spend, its detector finds a fork and the task is
\* cancelled at one of the detector's awaits
CancelSingletonRemoved ==
    \E coin \in chain_tips, funds \in FundsChoices :
      \E parent_spend \in ChainSpends(coin) :
        \E k \in (IF SyncOutcome(Now, parent_spend) = "found"
                    THEN ResubmitCancelPoints(InsertSuccessor(Now, parent_spend, peak + 1),
                                              LauncherOf(coin))
                    ELSE {}) :
            /\ feature = "cancel"
            /\ peak < MaxHeight
            /\ SyncOutcome(Now, parent_spend) = "found"
            /\ ForkKind(InsertSuccessor(Now, parent_spend, peak + 1), LauncherOf(coin))
                  \in {"root_changed", "rebase"}
            /\ Becomes(potentially_handle_resubmit_cancelled(
                           InsertSuccessor(Now, parent_spend, peak + 1),
                           LauncherOf(coin), funds, k))
            /\ chain_tips' = (chain_tips \ {coin}) \cup Successor(parent_spend)
            /\ peak' = peak + 1
            /\ UNCHANGED <<chain_launch, feature, wallet_actions>>
            /\ last' = Last("singleton_removed", "Cancelled", LauncherOf(coin),
                            <<ForkKind(InsertSuccessor(Now, parent_spend, peak + 1),
                                       LauncherOf(coin)),
                              parent_spend \in AuthoredSpends(coin)>>)

\* a spend that is not a DataLayer singleton reaches singleton_removed
OtherCoinRemoved ==
    LET parent_spend == CoinSpend(CoinName(<<"o1">>, ForeignPH, 2),
                                  <<CreateCoin(ForeignPH, 1, <<>>)>>)
    IN  /\ peak < MaxHeight
        /\ Becomes(singleton_removed(Now, parent_spend, peak + 1, TRUE))
        /\ peak' = peak + 1
        /\ UNCHANGED <<chain_launch, chain_tips, feature, wallet_actions>>
        /\ last' = Last("singleton_removed", SyncOutcome(Now, parent_spend), None,
                        <<"none", FALSE>>)

StopTrackingSingleton ==
    \E launcher_id \in LauncherIds :
        /\ feature \in {"stop", "track"}
        /\ Becomes(stop_tracking_singleton(Now, launcher_id))
        /\ UNCHANGED wallet_frame
        /\ last' = Last("stop_tracking_singleton", "none", launcher_id, <<>>)

\* the coin ids track_new_launcher_id is called with: launchers and a coin that
\* is none
TrackIds == LauncherIds \cup {CoinName(<<"o1">>, ForeignPH, 2)}

\* what the node can answer get_coin_state with for a coin id
CoinStates(id) ==
    IF id \notin LauncherIds
      THEN {<<>>, <<CoinState([parent_coin_info |-> <<"o1">>, puzzle_hash |-> ForeignPH,
                               amount |-> 2], <<1>>, <<1>>)>>}
    ELSE IF \E l \in chain_launch : l.launcher_id = id /\ l.height > 0
      THEN {<<CoinState(LauncherCoin(id[2]), <<l.height>>, <<l.height>>)>> :
                l \in {x \in chain_launch : x.launcher_id = id}}
    ELSE {<<>>,
          <<CoinState(LauncherCoin(id[2]), None, None)>>,
          <<CoinState(LauncherCoin(id[2]), <<peak>>, None)>>}

\* the launcher spends a caller of track_new_launcher_id can pass: none, or the
\* spend the chain holds for a launcher
TrackSpends ==
    {[spend |-> None, height |-> 0]}
    \cup {[spend |-> <<LauncherSpend(LauncherCoin(l.launcher_id[2]), l.solution)>>,
           height |-> l.height] : l \in {x \in chain_launch : x.height > 0}}

\* the calls of track_new_launcher_id the environment can make
TrackInputs ==
    {[launcher_id |-> id, spend |-> sp.spend, height |-> sp.height, coin_states |-> cs] :
        <<id, sp, cs>> \in {<<i, p, c>> \in TrackIds \X TrackSpends \X UNION {CoinStates(x) : x \in TrackIds} :
                               c \in CoinStates(i)}}

\* track_new_launcher_id is called for a launcher id
TrackNewLauncherId ==
    \E i \in TrackInputs :
        LET r == track_new_launcher_id(Now, i.launcher_id, i.spend, i.height, i.coin_states)
        IN  /\ feature = "track"
            /\ i.launcher_id \in LauncherIds
            /\ Len(wallet_actions) + Len(r.actions) <= MaxActions
            /\ Becomes(r.w)
            /\ wallet_actions' = wallet_actions \o r.actions
            /\ UNCHANGED <<chain_launch, chain_tips, peak, feature>>
            /\ last' = Last("track_new_launcher_id", r.err, i.launcher_id,
                            <<Len(r.actions)>>)

\* the node answers a request_puzzle_solution action and the callback runs
NewLauncherSpendResponse ==
    \E k \in DOMAIN wallet_actions :
      \E l \in {x \in chain_launch : x.launcher_id = wallet_actions[k].coin_name} :
        /\ Becomes(new_launcher_spend_response(Now, wallet_actions[k], l.solution, l.height))
        /\ wallet_actions' = SubSeq(wallet_actions, 1, k - 1)
                                \o SubSeq(wallet_actions, k + 1, Len(wallet_actions))
        /\ UNCHANGED <<chain_launch, chain_tips, peak, feature>>
        /\ last' = Last("new_launcher_spend", "none", wallet_actions[k].coin_name, <<"again">>)

Next ==
    \/ NewLauncherSpend
    \/ GenerateNewReporter
    \/ CreateUpdateStateSpend
    \/ CancelUpdateStateSpend
    \/ SingletonRemoved
    \/ CancelSingletonRemoved
    \/ OtherCoinRemoved
    \/ StopTrackingSingleton
    \/ GenerateSignedTransaction
    \/ TrackNewLauncherId
    \/ NewLauncherSpendResponse

Spec == Init /\ [][Next]_vars

\* --------------------------------------------------------------------- properties
ConfirmedOf(launcher_id) ==
    {r \in singleton_records : r.launcher_id = launcher_id /\ r.confirmed}

PendingOf(launcher_id) ==
    {r \in singleton_records : r.launcher_id = launcher_id /\ ~r.confirmed}

\* C1: for every launcher and every generation at most one record is confirmed
C1_OneConfirmedPerGeneration ==
    \A r1, r2 \in singleton_records :
        (r1.confirmed /\ r2.confirmed /\ r1.launcher_id = r2.launcher_id
            /\ r1.generation = r2.generation) => r1 = r2

\* C1 witness: a sync that found a fork left a launcher with two confirmed records
C1_Witness ==
    /\ last.op = "singleton_removed"
    /\ last.tags[1] \in {"rebase", "root_changed"}
    /\ \E l \in LauncherIds : Cardinality(ConfirmedOf(l)) >= 2

\* C2: the generations of a launcher's confirmed records are exactly 0..n
C2_ConfirmedGenerationsGapless ==
    \A l \in LauncherIds :
        {r.generation : r \in ConfirmedOf(l)} = 0..(Cardinality(ConfirmedOf(l)) - 1)

\* C3: every record of generation > 0 names as parent a stored record of the
\* same launcher and of the generation just below
C3_ParentStored ==
    \A r \in singleton_records :
        r.generation > 0 =>
            \E p \in singleton_records :
                /\ p.coin_id = r.lineage_proof.parent_name
                /\ p.launcher_id = r.launcher_id
                /\ p.generation = r.generation - 1

\* C4: every stored record's coin_id is the hash of its parent name, of the full
\* puzzle hash of its inner puzzle hash, root and launcher, and of its amount
CoinIdDerived(r) ==
    r.coin_id = CoinName(r.lineage_proof.parent_name,
                         create_host_fullpuz(r.inner_puzzle_hash, r.root, r.launcher_id),
                         r.lineage_proof.amount)

C4_CoinIdDerivation == \A r \in singleton_records : CoinIdDerived(r)

\* C5: while a record is stored, only confirmed, confirmed_at_height and
\* timestamp change
Immutable(r) == <<r.launcher_id, r.root, r.inner_puzzle_hash, r.lineage_proof, r.generation>>

C5_OnlyConfirmationMutates ==
    [][\A r \in singleton_records : \A q \in singleton_records' :
          q.coin_id = r.coin_id => Immutable(q) = Immutable(r)]_vars

\* ------------------------------------------------- authoring followed by sync
\* the world after the caller of create_update_state_spend has handled its result
Enqueued(r, a) ==
    IF a.add_pending_singleton
      THEN [r.w EXCEPT !.txs = add_pending_transactions(@, r.txs)]
      ELSE r.w

\* the spend of the current coin in the transactions authoring returned
AuthoredSpend(r) == r.txs[1].spend_bundle.coin_spends[1]

\* authoring with arguments a succeeds and the chain can confirm the spend
Confirmable(a) ==
    /\ create_update_state_spend(Now, a).err = "none"
    /\ AuthoredSpend(create_update_state_spend(Now, a)).coin \in chain_tips

\* the world after create_update_state_spend(a) and singleton_removed on its spend
AuthoredThenSynced(a, funds) ==
    singleton_removed(Enqueued(create_update_state_spend(Now, a), a),
                      AuthoredSpend(create_update_state_spend(Now, a)), peak + 1, funds)

\* the pending records an authoring call added
PendingWritten(a) ==
    get_unconfirmed_singletons(create_update_state_spend(Now, a).w.db, a.launcher_id)
        \ singleton_records

Promoted(db, pending) ==
    \A p \in pending : \E q \in db : q.coin_id = p.coin_id /\ q.confirmed

InGenerationOrder(history) ==
    \A i, j \in DOMAIN history : i < j => history[i].generation <= history[j].generation

\* C6: simple advance: after create_update_state_spend (announce off, add_pending
\* on) and singleton_removed on the authored spend the launcher has no unconfirmed
\* record, the pending successor is confirmed, and get_history is in generation
\* order with one more row than before
C6_SimpleAdvance ==
    \A a \in UpdateInputs :
        (~a.announce_new_state /\ a.add_pending_singleton /\ Confirmable(a)) =>
            LET db == AuthoredThenSynced(a, TRUE).db
            IN  /\ get_unconfirmed_singletons(db, a.launcher_id) = {}
                /\ Promoted(db, PendingWritten(a))
                /\ InGenerationOrder(get_history(db, a.launcher_id))
                /\ Len(get_history(db, a.launcher_id))
                     = Len(get_history(singleton_records, a.launcher_id)) + 1

\* C7: round trip: authoring with (new_root, new_ph, new_amount), the amount odd
\* or absent, and then sync on the authored spend yields a confirmed record with
\* root new_root and inner puzzle hash new_ph
C7_RoundTrip ==
    \A a \in UpdateInputs :
        (Confirmable(a) /\ (a.new_amount = None \/ a.new_amount[1] % 2 = 1)) =>
            \E q \in AuthoredThenSynced(a, TRUE).db :
                /\ q.coin_id \in Successor(AuthoredSpend(create_update_state_spend(Now, a)))
                /\ q.confirmed
                /\ q.root = (IF a.root_hash = None
                               THEN (CHOOSE r \in get_latest_singleton(singleton_records,
                                                        a.launcher_id, FALSE) : TRUE).root
                               ELSE a.root_hash)
                /\ q.inner_puzzle_hash = (IF a.new_puz_hash = None
                                            THEN DerivedPH(derivation_index + 1)
                                            ELSE a.new_puz_hash)

\* C7 witness: sync has confirmed a spend this wallet authored, and the confirmed
\* head carries the root the wallet asked for
C7_Witness ==
    /\ last.op = "singleton_removed"
    /\ last.err = "found"
    /\ last.tags[2]
    /\ \E q \in get_latest_singleton(singleton_records, last.launcher_id, TRUE) :
          q.generation > 0 /\ q.root = <<"R1">>

\* ------------------------------------------------------ sync and the fork detector
\* the spends singleton_removed can be handed in the current state
SyncInputs ==
    {[parent_spend |-> s, funds |-> f] :
        s \in UNION {ChainSpends(coin) : coin \in chain_tips}, f \in FundsChoices}

\* the launcher a spend's parent record belongs to
SyncLauncher(i) == LauncherOf(i.parent_spend.coin)

\* the store after the successor is inserted and before the fork detector runs
Inserted(i) == InsertSuccessor(Now, i.parent_spend, peak + 1)

\* the world after singleton_removed
Synced(i) == singleton_removed(Now, i.parent_spend, peak + 1, i.funds)

\* the confirmed successor sync inserts
NewHead(i) ==
    CHOOSE q \in Inserted(i).db : q.coin_id \in Successor(i.parent_spend)

\* the confirmed record the spend consumes
OldHead(i) ==
    CHOOSE q \in singleton_records : q.coin_id = i.parent_spend.coin

\* the transactions the fork detector finds for the pending records
PendingTxs(launcher_id) ==
    {t \in tx_store : \E p \in PendingOf(launcher_id) : t.name = p.lineage_proof.parent_name}

\* sync finds the successor of the confirmed head while records are pending
\* and the successor is none of them, and the detector sees it: the successor
\* is not below every pending generation
ForkDetected(i) ==
    /\ SyncOutcome(Now, i.parent_spend) = "found"
    /\ OldHead(i).confirmed
    /\ PendingOf(SyncLauncher(i)) # {}
    /\ \A p \in PendingOf(SyncLauncher(i)) :
          /\ p.generation > OldHead(i).generation
          /\ p.coin_id \notin Successor(i.parent_spend)
    /\ \E p \in PendingOf(SyncLauncher(i)) : p.generation <= NewHead(i).generation

\* the parent of the earliest pending record is missing, or a confirmed record
\* of the branch has another root than that parent
RootChanged(i) ==
    LET pending == SortByGeneration(get_unconfirmed_singletons(Inserted(i).db, SyncLauncher(i)))
        parent == get_singleton_record(Inserted(i).db, pending[1].lineage_proof.parent_name)
    IN  \/ parent = {}
        \/ \E s \in Inserted(i).db :
              /\ s.launcher_id = SyncLauncher(i)
              /\ s.generation >= pending[1].generation
              /\ s.confirmed
              /\ \E p \in parent : p.root # s.root

\* the pending records and their transactions are gone
PendingDeleted(i, w) ==
    /\ \A p \in PendingOf(SyncLauncher(i)) : get_singleton_record(w.db, p.coin_id) = {}
    /\ \A t \in PendingTxs(SyncLauncher(i)) : t \notin w.txs

\* C8: fork without root change: with pending records at the two generations
\* after the confirmed head, when sync confirms another successor of the head
\* with the head's root and the wallet can spend it, the detector deletes both
\* pending records and their transactions and leaves a new pending record two
\* generations after the old head, child of the new head, with the root of the
\* deleted pending tail and its transaction enqueued
C8_ForkWithoutRootChange ==
    \A i \in SyncInputs :
        (/\ ForkDetected(i)
         /\ {p.generation : p \in PendingOf(SyncLauncher(i))}
               = {OldHead(i).generation + 1, OldHead(i).generation + 2}
         /\ NewHead(i).root = OldHead(i).root
         /\ Owned(derivation_index, NewHead(i).inner_puzzle_hash)
         /\ i.funds)
        => /\ PendingDeleted(i, Synced(i))
           /\ \E n \in Synced(i).db :
                 /\ ~n.confirmed
                 /\ n.launcher_id = SyncLauncher(i)
                 /\ n.generation = OldHead(i).generation + 2
                 /\ n.lineage_proof.parent_name = NewHead(i).coin_id
                 /\ \E tail \in PendingOf(SyncLauncher(i)) :
                       tail.generation = OldHead(i).generation + 2 /\ n.root = tail.root
                 /\ \E t \in Synced(i).txs :
                       t.name = NewHead(i).coin_id /\ n.coin_id \in t.additions

\* C9: fork with root change: the detector deletes every pending record and the
\* related transactions and authors nothing: no unconfirmed record is left and
\* no transaction is enqueued
C9_ForkWithRootChange ==
    \A i \in SyncInputs :
        (ForkDetected(i) /\ RootChanged(i))
        => /\ PendingDeleted(i, Synced(i))
           /\ get_unconfirmed_singletons(Synced(i).db, SyncLauncher(i)) = {}
           /\ Synced(i).txs \subseteq tx_store
           /\ Synced(i).drv = derivation_index

\* C9 witness: sync found a fork whose root changed and no record is pending
C9_Witness ==
    /\ last.op = "singleton_removed"
    /\ last.err = "found"
    /\ last.tags[1] = "root_changed"
    /\ PendingOf(last.launcher_id) = {}
    /\ Cardinality(ConfirmedOf(last.launcher_id)) >= 2

\* the rebase attempt of the fork detector for a sync input
RebaseAttempt(i) ==
    LET pending == SortByGeneration(get_unconfirmed_singletons(Inserted(i).db, SyncLauncher(i)))
        relevant_dl_txs == RelevantDlTxs(tx_store, pending)
    IN  RebaseLoop(DeletePending(Inserted(i), pending, relevant_dl_txs),
                   RebaseCalls(pending, relevant_dl_txs), <<>>, SyncLauncher(i), i.funds)

\* C10: when re-authoring throws during an automatic rebase, the store afterwards
\* holds no pending record created during the attempt, and the records and
\* transactions deleted before the attempt stay deleted
C10_RebaseFailureCleansUp ==
    \A i \in SyncInputs :
        (ForkDetected(i) /\ ~RootChanged(i) /\ RebaseAttempt(i).err # "none")
        => /\ PendingDeleted(i, Synced(i))
           /\ get_unconfirmed_singletons(Synced(i).db, SyncLauncher(i)) = {}

\* ------------------------------------------------------ running the detector twice
\* the detector run a second time leaves both stores as the first run left them
DetectorFixpoint(w, launcher_id, funds) ==
    potentially_handle_resubmit(potentially_handle_resubmit(w, launcher_id, funds),
                                launcher_id, funds).db
        = potentially_handle_resubmit(w, launcher_id, funds).db
    /\ potentially_handle_resubmit(potentially_handle_resubmit(w, launcher_id, funds),
                                   launcher_id, funds).txs
        = potentially_handle_resubmit(w, launcher_id, funds).txs

\* C11: fork-detector fixpoint: from the store as it is, and from the store as
\* sync hands it to the detector, running potentially_handle_resubmit twice
\* leaves the singleton store and the transaction store as running it once
C11_DetectorFixpoint ==
    /\ \A l \in LauncherIds, f \in BOOLEAN : DetectorFixpoint(Now, l, f)
    /\ \A i \in SyncInputs :
          SyncOutcome(Now, i.parent_spend) = "found"
              => \A f \in BOOLEAN : DetectorFixpoint(Inserted(i), SyncLauncher(i), f)

\* C11 witness: the detector has rebased and left a re-authored pending record,
\* and running it again changes nothing
C11_Witness ==
    /\ last.op = "singleton_removed"
    /\ last.tags[1] = "rebase"
    /\ PendingOf(last.launcher_id) # {}
    /\ potentially_handle_resubmit(Now, last.launcher_id, TRUE) = Now

\* ------------------------------------------------------------ authoring errors
\* the latest record of a launcher, as get_latest_singleton returns it
LatestOf(launcher_id) == get_latest_singleton(singleton_records, launcher_id, FALSE)

\* the call raised: nothing is stored and nothing is returned
NothingAuthored(r) ==
    /\ r.w.db = singleton_records
    /\ r.w.txs = tx_store
    /\ r.txs = <<>>

\* C12: create_update_state_spend fails with the Pending error whenever the
\* latest record of the launcher is unconfirmed; it then inserts no record and
\* returns no transaction
C12_PendingError ==
    \A a \in UpdateInputs :
        (\E r \in LatestOf(a.launcher_id) : ~r.confirmed)
            => /\ create_update_state_spend(Now, a).err = "Pending"
               /\ NothingAuthored(create_update_state_spend(Now, a))

\* C12 witness: a call was refused while the latest record was pending
C12_Witness ==
    /\ last.op = "create_update_state_spend"
    /\ last.err = "Pending"
    /\ \E r \in LatestOf(last.launcher_id) : ~r.confirmed


\* C13: create_update_state_spend fails with NotTracked when the launcher has no
\* record in the store, be it never tracked or after stop_tracking_singleton,
\* and leaves the store unchanged
C13_NotTrackedError ==
    \A a \in UpdateInputs :
        (\/ \A r \in singleton_records : r.launcher_id # a.launcher_id
         \/ (last.op = "stop_tracking_singleton" /\ last.launcher_id = a.launcher_id))
            => /\ create_update_state_spend(Now, a).err = "NotTracked"
               /\ create_update_state_spend(Now, a).w = Now
               /\ create_update_state_spend(Now, a).txs = <<>>

\* C13 witness: a call for a launcher whose tracking was stopped was refused
C13_Witness ==
    /\ last.op = "create_update_state_spend"
    /\ last.err = "NotTracked"
    /\ \E x \in chain_launch : x.launcher_id = last.launcher_id /\ x.height > 0

AuthoredAmounts(r) ==
    UNION {{t.spend_bundle.coin_spends[i].conditions[j].amount :
                <<i, j>> \in {<<m, n>> \in (DOMAIN t.spend_bundle.coin_spends) \X (1..4) :
                                 /\ n \in DOMAIN t.spend_bundle.coin_spends[m].conditions
                                 /\ t.spend_bundle.coin_spends[m].conditions[n].opcode = CREATE_COIN}} :
           t \in {r.txs[k] : k \in DOMAIN r.txs}}

\* C15: create_update_state_spend with a supplied new_amount that is even or zero
\* fails, with InvalidAmount once the latest record is found spendable and
\* owned, and inserts no pending record; the amount of every successor coin it
\* authors is odd and non-zero
C15_InvalidAmount ==
    \A a \in UpdateInputs :
        /\ (a.new_amount # None /\ a.new_amount[1] % 2 = 0)
              => /\ create_update_state_spend(Now, a).err # "none"
                 /\ NothingAuthored(create_update_state_spend(Now, a))
                 /\ (/\ get_spendable_singleton_info(Now, a.launcher_id).err = "none"
                     /\ \A r \in LatestOf(a.launcher_id) :
                           Owned(derivation_index, r.inner_puzzle_hash))
                      => create_update_state_spend(Now, a).err = "InvalidAmount"
        /\ \A n \in AuthoredAmounts(create_update_state_spend(Now, a)) : n % 2 = 1 /\ n # 0

\* ------------------------------------------------------- sync that inserts nothing
\* the spend is of a coin the store has a record for
Tracked(i) == \E r \in singleton_records : r.coin_id = i.parent_spend.coin

\* the CREATE_COIN conditions with an odd amount, in the order of the spend
OddCreateCoins(i) ==
    SelectSeq(i.parent_spend.conditions, LAMBDA c : c.opcode = CREATE_COIN /\ c.amount % 2 = 1)

\* C16: melt: given a spend of a tracked coin whose conditions hold no CREATE_COIN
\* with an odd amount, singleton_removed inserts no record, changes no record
\* and leaves get_latest_singleton for the launcher as it was
C16_Melt ==
    \A i \in SyncInputs :
        (Tracked(i) /\ OddCreateCoins(i) = <<>>)
            => /\ Synced(i).db = singleton_records
               /\ get_latest_singleton(Synced(i).db, SyncLauncher(i), FALSE)
                    = get_latest_singleton(singleton_records, SyncLauncher(i), FALSE)
               /\ Synced(i).txs = tx_store

\* C16 witness: sync was handed a melting spend of a tracked coin and the
\* launcher's confirmed head is still the record of the melted coin
C16_Witness ==
    /\ last.op = "singleton_removed"
    /\ last.err = "melted"
    /\ \E r \in get_latest_singleton(singleton_records, last.launcher_id, TRUE) :
          r.coin_id \notin chain_tips


\* C17: missing hint: when the first odd-amount CREATE_COIN of the spend lacks
\* the root or the inner_puzzle_hash memo, singleton_removed inserts no record,
\* also when a later CREATE_COIN of the spend is odd and properly hinted
C17_MissingHint ==
    \A i \in SyncInputs :
        (Tracked(i) /\ OddCreateCoins(i) # <<>> /\ Len(OddCreateCoins(i)[1].memos) < 3)
            => /\ Synced(i).db = singleton_records
               /\ Synced(i).txs = tx_store
               /\ Synced(i).coins = coin_store
               /\ Synced(i).interested_coin_ids = interested_coin_ids

\* C17 witness: sync was handed a spend whose successor is not hinted, the
\* successor is unspent on chain and the store has no record of it
C17_Witness ==
    /\ last.op = "singleton_removed"
    /\ last.err = "no_hint"
    /\ \E coin \in chain_tips :
          /\ LauncherOf(coin) = last.launcher_id
          /\ \A r \in singleton_records : r.coin_id # coin

\* C18: unknown parent: given a spend whose coin has no record in the store,
\* singleton_removed leaves the singleton store, the coin store, the interest
\* registry and the transaction store unchanged and does not run the fork detector
C18_UnknownParent ==
    \A i \in SyncInputs :
        ~Tracked(i) => Synced(i) = Now

\* C18 witness: sync was handed the spend of a singleton coin the store has no
\* record of, while records of other coins of the launcher are stored
C18_Witness ==
    /\ last.op = "singleton_removed"
    /\ last.err = "unknown_parent"
    /\ last.launcher_id \in LauncherIds
    /\ \E r \in singleton_records : r.launcher_id = last.launcher_id

\* --------------------------------------------------------- launcher processing
\* the launcher spends new_launcher_spend can be handed, with the height of the
\* block that holds or will hold them
LaunchInputs ==
    {[spend |-> LauncherSpend(LauncherCoin(origin), l.solution),
      height |-> IF l.height = 0 THEN peak + 1 ELSE l.height] :
        <<origin, l>> \in {<<o, x>> \in OriginCoins \X UNION {LaunchChoices(LauncherId(o)) : o \in OriginCoins} :
                              x.launcher_id = LauncherId(o)}}

\* the world after new_launcher_spend
Launched(i) == new_launcher_spend(Now, i.spend, i.height)

\* C19: idempotence of launcher processing: new_launcher_spend called a second
\* time with the same spend, after the first call completed, changes neither the
\* singleton store, nor the launcher rows, nor the interest registry, nor the
\* coin store
C19_LauncherIdempotent ==
    \A i \in LaunchInputs :
        new_launcher_spend(Launched(i), i.spend, i.height) = Launched(i)

\* C19 witness: a launcher spend was processed again and the launcher has its
\* confirmed generation-0 record and its launcher row
C19_Witness ==
    /\ last.op = "new_launcher_spend"
    /\ last.tags[1] = "again"
    /\ \E r \in ConfirmedOf(last.launcher_id) : r.generation = 0
    /\ get_launcher(launchers, last.launcher_id) # {}


\* C20: genesis adopt: new_launcher_spend for a launcher that has no stored
\* record inserts exactly one record, of generation 0, confirmed, with the root
\* and the inner puzzle hash of the solution and lineage_proof.parent_name equal
\* to the launcher id, and registers the launcher row
C20_GenesisAdopt ==
    \A i \in LaunchInputs :
        (\A r \in singleton_records : r.launcher_id # LauncherRowId(i.spend.coin))
            => /\ singleton_records \subseteq Launched(i).db
               /\ \E g \in Launched(i).db :
                     /\ Launched(i).db \ singleton_records = {g}
                     /\ g.launcher_id = LauncherRowId(i.spend.coin)
                     /\ g.generation = 0
                     /\ g.confirmed
                     /\ g.root = i.spend.solution.root
                     /\ g.inner_puzzle_hash = i.spend.solution.inner_puzhash
                     /\ g.lineage_proof.parent_name = LauncherRowId(i.spend.coin)
               /\ get_launcher(Launched(i).launchers, LauncherRowId(i.spend.coin))
                    = {i.spend.coin}

\* C20 witness: the launcher spend was processed for the first time and the
\* launcher has exactly its genesis record
C20_Witness ==
    /\ last.op = "new_launcher_spend"
    /\ last.tags[1] = "first"
    /\ Cardinality({r \in singleton_records : r.launcher_id = last.launcher_id}) = 1
    /\ ConfirmedOf(last.launcher_id) # {}
    /\ tx_store = {}

\* the launcher of a launcher spend
LaunchedId(i) == LauncherRowId(i.spend.coin)

\* the unconfirmed generation-0 records of a launcher
PendingGenesis(launcher_id) ==
    {p \in singleton_records : p.launcher_id = launcher_id /\ p.generation = 0 /\ ~p.confirmed}

\* C21: when new_launcher_spend is processed for a launcher whose genesis record
\* generate_new_reporter stored unconfirmed, that record is promoted to confirmed
\* at the observed height and timestamp, no second generation-0 record is
\* created and the launcher row is registered
C21_GenesisPromoted ==
    \A i \in LaunchInputs :
        \A p \in PendingGenesis(LaunchedId(i)) :
            /\ [p EXCEPT !.confirmed = TRUE, !.confirmed_at_height = i.height,
                         !.timestamp = get_timestamp_for_height(i.height)] \in Launched(i).db
            /\ {q \in Launched(i).db : q.launcher_id = LaunchedId(i) /\ q.generation = 0}
                 = {[p EXCEPT !.confirmed = TRUE, !.confirmed_at_height = i.height,
                              !.timestamp = get_timestamp_for_height(i.height)]}
            /\ Cardinality(Launched(i).db) = Cardinality(singleton_records)
            /\ get_launcher(Launched(i).launchers, LaunchedId(i)) = {i.spend.coin}

\* C21 witness: the launcher spend of a singleton this wallet created was
\* processed and its genesis record is confirmed at the height of the spend
C21_Witness ==
    /\ last.op = "new_launcher_spend"
    /\ last.tags[1] = "first"
    /\ \E t \in tx_store : t.name = <<"sb", last.launcher_id>>
    /\ \E g \in ConfirmedOf(last.launcher_id) :
          g.generation = 0 /\ g.confirmed_at_height = peak /\ g.timestamp = get_timestamp_for_height(peak)
    /\ get_launcher(launchers, last.launcher_id) # {}

\* ----------------------------------------------------------- adopting a launcher
\* the result of a call of track_new_launcher_id in the current state
TrackResult(i) ==
    track_new_launcher_id(Now, i.launcher_id, i.spend, i.height, i.coin_states)

\* C22: track_new_launcher_id for a launcher that already has a launcher row is
\* a no-op: it changes no store, queries no chain state and creates no action,
\* with and without a spend
C22_TrackKnownLauncher ==
    \A i \in TrackInputs :
        (\E c \in launchers : LauncherRowId(c) = i.launcher_id)
            => /\ TrackResult(i).w = Now
               /\ TrackResult(i).queries = 0
               /\ TrackResult(i).actions = <<>>
               /\ TrackResult(i).err = "none"

\* C22 witness: track_new_launcher_id was called for a launcher whose row is
\* stored, and no action is pending
C22_Witness ==
    /\ last.op = "track_new_launcher_id"
    /\ last.err = "none"
    /\ last.tags[1] = 0
    /\ get_launcher(launchers, last.launcher_id) # {}
    /\ wallet_actions = <<>>
    /\ Cardinality({r \in singleton_records : r.launcher_id = last.launcher_id}) >= 2


\* the four tests of get_launcher_coin_state on the node's answer
CoinStateUsable(i) ==
    /\ i.coin_states # <<>>
    /\ i.coin_states[1].coin.puzzle_hash = SINGLETON_LAUNCHER_HASH
    /\ i.coin_states[1].created_height # None
    /\ i.coin_states[1].spent_height # None

\* the call has no usable spend and the launcher has no row
NeedsCoinState(i) ==
    /\ \A c \in launchers : LauncherRowId(c) # i.launcher_id
    /\ (i.spend = None \/ LauncherRowId(i.spend[1].coin) # i.launcher_id)

\* C23: track_new_launcher_id without a usable spend fails, creating no action
\* and changing no store, when the chain returns no coin state for the id, or
\* the coin's puzzle hash is not the launcher puzzle hash, or it has no created
\* height, or it has no spent height; when all four tests pass it creates
\* exactly one request_puzzle_solution action
C23_TrackCoinStateChecks ==
    \A i \in TrackInputs :
        NeedsCoinState(i)
            => /\ TrackResult(i).w = Now
               /\ IF CoinStateUsable(i)
                    THEN /\ TrackResult(i).err = "none"
                         /\ Len(TrackResult(i).actions) = 1
                         /\ TrackResult(i).actions[1].name = "request_puzzle_solution"
                         /\ TrackResult(i).actions[1].coin_name = i.launcher_id
                         /\ TrackResult(i).actions[1].height = i.coin_states[1].spent_height[1]
                    ELSE /\ TrackResult(i).err # "none"
                         /\ TrackResult(i).actions = <<>>

\* C23 witness: a call without a spend for a launcher spent on chain and not
\* tracked created the one pending action
C23_Witness ==
    /\ last.op = "track_new_launcher_id"
    /\ last.err = "none"
    /\ last.tags[1] = 1
    /\ Len(wallet_actions) = 1
    /\ wallet_actions[1].coin_name = last.launcher_id
    /\ get_launcher(launchers, last.launcher_id) = {}

\* ------------------------------------------------------------- stop tracking
\* the launchers stop_tracking_singleton is called for: the tracked ones and one
\* this wallet never tracked
StopIds == LauncherIds \cup {LauncherId(<<"o2">>)}

\* C24: stop_tracking_singleton(launcher) removes every singleton record,
\* confirmed and pending, and the launcher row of that launcher and leaves the
\* records and launcher rows of every other launcher unchanged; afterwards
\* get_latest_singleton for it returns nothing
C24_StopTracking ==
    \A l \in StopIds :
        LET after == stop_tracking_singleton(Now, l)
        IN  /\ \A r \in after.db : r.launcher_id # l
            /\ get_launcher(after.launchers, l) = {}
            /\ {r \in after.db : r.launcher_id # l}
                 = {r \in singleton_records : r.launcher_id # l}
            /\ {c \in after.launchers : LauncherRowId(c) # l}
                 = {c \in launchers : LauncherRowId(c) # l}
            /\ get_latest_singleton(after.db, l, FALSE) = {}
            /\ get_latest_singleton(after.db, l, TRUE) = {}

\* C24 witness: tracking of a launcher that was spent on chain and had been
\* adopted was stopped and the stores hold nothing of it
C24_Witness ==
    /\ last.op = "stop_tracking_singleton"
    /\ \E x \in chain_launch : x.launcher_id = last.launcher_id /\ x.height > 0
    /\ \E c \in coin_store : LauncherOf(c.coin) = last.launcher_id
    /\ \A r \in singleton_records : r.launcher_id # last.launcher_id
    /\ get_launcher(launchers, last.launcher_id) = {}

\* ------------------------------------------------- generate_signed_transaction
\* the launcher a call of generate_signed_transaction is about: that of the
\* record of its coin, or the one it names
SentLauncher(s) ==
    IF s.coins = {} THEN s.launcher_id
    ELSE (CHOOSE r \in singleton_records : r.coin_id \in s.coins).launcher_id

\* a call with more than one coin, with neither coin nor launcher, with a coin
\* no record describes, or without exactly one amount and one puzzle hash
NotSendable(s) ==
    \/ Cardinality(s.coins) > 1
    \/ s.coins = {} /\ s.launcher_id = None
    \/ Cardinality(s.coins) = 1 /\ ~\E r \in singleton_records : r.coin_id \in s.coins
    \/ Len(s.amounts) # 1
    \/ Len(s.puzzle_hashes) # 1

\* the CREATE_COIN conditions of a coin spend
CreatedCoins(spend) ==
    {spend.conditions[j] : j \in {n \in DOMAIN spend.conditions :
                                     spend.conditions[n].opcode = CREATE_COIN}}

\* one transaction that spends the latest coin of the launcher and creates one
\* coin, of the given amount, for the given inner puzzle hash
SendsOneSingleton(r, s, launcher_id) ==
    /\ Len(r.txs) = 1
    /\ \E latest \in LatestOf(launcher_id) :
          /\ r.txs[1].name = latest.coin_id
          /\ Len(r.txs[1].spend_bundle.coin_spends) = 1
          /\ r.txs[1].spend_bundle.coin_spends[1].coin = CurrentCoin(latest, launcher_id)
          /\ CreatedCoins(r.txs[1].spend_bundle.coin_spends[1])
                = {CreateCoin(create_host_fullpuz(s.puzzle_hashes[1], latest.root, launcher_id),
                              s.amounts[1],
                              <<launcher_id, latest.root, s.puzzle_hashes[1]>>)}
    /\ \E new \in r.w.db \ singleton_records :
          /\ r.w.db = singleton_records \cup {new}
          /\ new.launcher_id = launcher_id
          /\ new.inner_puzzle_hash = s.puzzle_hashes[1]
          /\ ~new.confirmed

\* C25: generate_signed_transaction rejects, with every store unchanged, a call
\* with more than one coin, with no coin and no launcher id, with a coin that is
\* not a stored record, or with a number of amounts or of puzzle hashes other
\* than one; a call it accepts and that succeeds spends one singleton, the one
\* of the coin or the named launcher, to the one destination
C25_SendOneCoinOnePlace ==
    \A s \in SendInputs :
        LET r == generate_signed_transaction(Now, s)
        IN  /\ NotSendable(s) => r.err \in SendErrors /\ r.w = Now /\ r.txs = <<>>
            /\ ~NotSendable(s) => r.err \notin SendErrors
            /\ ~NotSendable(s) /\ r.err = "none" => SendsOneSingleton(r, s, SentLauncher(s))

C25_Witness ==
    /\ last.op = "generate_signed_transaction"
    /\ last.err = "none"
    /\ \E r \in singleton_records : ~r.confirmed /\ r.inner_puzzle_hash = ForeignPH
    /\ \E t \in tx_store :
          \E r \in singleton_records : r.confirmed /\ t.name = r.coin_id

\* ------------------------------------------------------------- cancellation
\* C26: when create_update_state_spend is cancelled at an await, the singleton
\* store holds all of the pending records the call would insert or none of
\* them: with announce_new_state it never holds the record two generations on
\* without the ephemeral record between
C26_CancelAllOrNothing ==
    \A a \in UpdateInputs, point \in CancelPoints :
        create_update_state_spend(Now, a).err = "none"
        => \/ create_update_state_spend_cancelled(Now, a, point).db = singleton_records
           \/ create_update_state_spend_cancelled(Now, a, point).db
                 = create_update_state_spend(Now, a).w.db

\* ------------------------------------------------------- after a rebase
\* the detector rebased for a sync input and no re-authoring call raised
Rebased(i) ==
    /\ SyncOutcome(Now, i.parent_spend) = "found"
    /\ ForkKind(Inserted(i), SyncLauncher(i)) = "rebase"
    /\ RebaseAttempt(i).err = "none"

\* the pending records of a launcher in a world, and its confirmed head
PendingIn(w, launcher_id) == get_unconfirmed_singletons(w.db, launcher_id)

HeadIn(w, launcher_id) == get_latest_singleton(w.db, launcher_id, TRUE)

\* every pending record is the child of the confirmed head or of another
\* pending record, the earliest one is the head's child one generation on
DescendsFromHead(w, launcher_id) ==
    /\ PendingIn(w, launcher_id) # {}
    /\ \E head \in HeadIn(w, launcher_id) :
          /\ \A p \in PendingIn(w, launcher_id) :
                \/ p.lineage_proof.parent_name = head.coin_id
                \/ \E q \in PendingIn(w, launcher_id) :
                      q.coin_id = p.lineage_proof.parent_name
          /\ \E first \in PendingIn(w, launcher_id) :
                /\ \A p \in PendingIn(w, launcher_id) : first.generation <= p.generation
                /\ first.lineage_proof.parent_name = head.coin_id
                /\ first.generation = head.generation + 1

\* C27: after a successful automatic rebase every pending record of the launcher
\* descends from the new confirmed head: the earliest one has the coin id of
\* get_latest_singleton(only_confirmed = true) as parent_name and the generation
\* after it, and no pending record names the superseded parent; a rebase that
\* found nothing to author again leaves nothing pending
C27_RebasedOnNewHead ==
    \A i \in SyncInputs :
        Rebased(i)
        => /\ RebaseAttempt(i).txs # <<>> => DescendsFromHead(Synced(i), SyncLauncher(i))
           /\ RebaseAttempt(i).txs = <<>> => PendingIn(Synced(i), SyncLauncher(i)) = {}
           /\ HeadIn(Synced(i), SyncLauncher(i)) = {NewHead(i)}
           /\ \A p \in PendingIn(Synced(i), SyncLauncher(i)) :
                 p.lineage_proof.parent_name # OldHead(i).coin_id

C27_Witness ==
    /\ last.op = "singleton_removed"
    /\ last.err = "found"
    /\ last.tags[1] = "rebase"
    /\ DescendsFromHead(Now, last.launcher_id)
    /\ \E t \in tx_store :
          \E head \in HeadIn(Now, last.launcher_id) : t.name = head.coin_id

\* ------------------------------------------------- what a detected fork deletes
\* the detector, run by sync for the input, goes past line 841
DetectorSeesFork(i) ==
    /\ SyncOutcome(Now, i.parent_spend) = "found"
    /\ ForkKind(Inserted(i), SyncLauncher(i)) \in {"root_changed", "rebase"}

\* the records that are unconfirmed when the detector starts
PendingAtStart(i) == PendingIn(Inserted(i), SyncLauncher(i))

\* the transactions named by the parents of those records
ParentTxs(i) ==
    {t \in Inserted(i).txs : \E p \in PendingAtStart(i) : t.name = p.lineage_proof.parent_name}

\* the coins those transactions spend
ParentTxRemovals(i) ==
    UNION {t.removals \cup BundleRemovals(t.spend_bundle.coin_spends) : t \in ParentTxs(i)}

\* the standard wallet's unconfirmed transactions that spend one of those coins
FeeTxs(i) ==
    {t \in Inserted(i).txs :
        t.wallet_id = "std" /\ ~t.confirmed /\ t.removals \cap ParentTxRemovals(i) # {}}

\* C28: whenever the detector detects a fork, every record unconfirmed for the
\* launcher at the start of the run, every transaction named by the
\* parent_name of such a record, and every unconfirmed transaction of the
\* standard wallet that spends a coin those transactions spend is gone when
\* the detector returns, whether the root changed or not
C28_ForkDeletesPending ==
    \A i \in SyncInputs :
        DetectorSeesFork(i)
        => /\ \A p \in PendingAtStart(i) :
                 get_singleton_record(Synced(i).db, p.coin_id) = {}
           /\ \A t \in ParentTxs(i) \cup FeeTxs(i) :
                 get_transaction_record(Synced(i).txs, t.name) = {}

C28_Witness ==
    /\ last.op = "singleton_removed"
    /\ last.err = "found"
    /\ last.tags[1] = "rebase"
    /\ \E t \in tx_store : t.wallet_id = "std" /\ t.fee_amount > 0
    /\ \E old \in ConfirmedOf(last.launcher_id), head \in HeadIn(Now, last.launcher_id) :
          /\ head.lineage_proof.parent_name = old.coin_id
          /\ get_transaction_record(tx_store, old.coin_id) = {}
          /\ \A t \in tx_store : old.coin_id \notin t.removals

\* ----------------------------------------------------- when the detector returns
\* the records of a launcher from its lowest pending generation upward
BranchIn(w, launcher_id) ==
    {r \in w.db : /\ r.launcher_id = launcher_id
                  /\ \E q \in PendingIn(w, launcher_id) :
                        /\ \A p \in PendingIn(w, launcher_id) : q.generation <= p.generation
                        /\ q.generation <= r.generation}

\* nothing is pending for the launcher, or every record from the lowest pending
\* generation upward is pending
NoFork(w, launcher_id) ==
    \/ PendingIn(w, launcher_id) = {}
    \/ BranchIn(w, launcher_id) = PendingIn(w, launcher_id)

\* C29: the fork detector changes nothing, neither the singleton store nor the
\* transaction store, and authors nothing, when the launcher has no unconfirmed
\* record or when the records from the lowest pending generation upward are
\* exactly the unconfirmed ones
C29_DetectorNoFork ==
    /\ \A l \in StopIds, f \in BOOLEAN :
          NoFork(Now, l) => potentially_handle_resubmit(Now, l, f) = Now
    /\ \A i \in SyncInputs, f \in BOOLEAN :
          (SyncOutcome(Now, i.parent_spend) = "found" /\ NoFork(Inserted(i), SyncLauncher(i)))
              => potentially_handle_resubmit(Inserted(i), SyncLauncher(i), f) = Inserted(i)

C29_Witness ==
    /\ last.op = "singleton_removed"
    /\ last.err = "found"
    /\ last.tags[1] = "same"
    /\ PendingOf(last.launcher_id) # {}
    /\ BranchIn(Now, last.launcher_id) = PendingOf(last.launcher_id)
    /\ \E t \in tx_store : \E p \in PendingOf(last.launcher_id) : p.coin_id \in t.additions

\* ------------------------------------------------------- the successor of a sync
\* the record sync is to insert for a spend of a tracked coin: the successor is
\* the first CREATE_COIN with an odd amount
ExpectedSuccessor(i, r) ==
    /\ r.coin_id = CoinName(i.parent_spend.coin, OddCreateCoins(i)[1].puzzle_hash,
                            OddCreateCoins(i)[1].amount)
    /\ r.confirmed
    /\ r.confirmed_at_height = peak + 1
    /\ r.generation = OldHead(i).generation + 1
    /\ r.launcher_id = OldHead(i).launcher_id
    /\ r.lineage_proof.parent_name = i.parent_spend.coin
    /\ r.lineage_proof.amount = OddCreateCoins(i)[1].amount
    /\ r.root = OddCreateCoins(i)[1].memos[2]
    /\ r.inner_puzzle_hash = OddCreateCoins(i)[1].memos[3]

\* C30: given a spend of a tracked coin whose first CREATE_COIN with an odd
\* amount is hinted, singleton_removed takes that condition as the successor,
\* whatever even CREATE_COIN precedes it and whatever odd one follows, and
\* inserts one record for it: confirmed, at the given height, one generation
\* after the parent, with the parent's launcher id and the spent coin as
\* lineage parent
C30_FirstOddSuccessor ==
    \A i \in SyncInputs :
        (Tracked(i) /\ OddCreateCoins(i) # <<>> /\ Len(OddCreateCoins(i)[1].memos) >= 3)
        => \E n \in Inserted(i).db :
              /\ ExpectedSuccessor(i, n)
              /\ Inserted(i).db = {r \in singleton_records : r.coin_id # n.coin_id} \cup {n}
              /\ n \in Synced(i).db
              /\ {r \in Synced(i).db : r.confirmed}
                    = {r \in singleton_records : r.confirmed /\ r.coin_id # n.coin_id} \cup {n}

C30_Witness ==
    /\ last.op = "singleton_removed"
    /\ last.err = "found"
    /\ ~last.tags[2]
    /\ \E n \in HeadIn(Now, last.launcher_id) :
          /\ n.confirmed_at_height = peak
          /\ n.inner_puzzle_hash = DerivedPH(1)
          /\ \E parent \in singleton_records :
                /\ parent.coin_id = n.lineage_proof.parent_name
                /\ parent.confirmed
                /\ n.generation = parent.generation + 1
                /\ n.launcher_id = parent.launcher_id

\* ------------------------------------------------- what authoring writes
\* the latest record of the launcher an authoring call is about
LatestFor(a) == CHOOSE r \in LatestOf(a.launcher_id) : TRUE

\* the root an authoring call gives its records
RootFor(a) == IF a.root_hash = None THEN LatestFor(a).root ELSE a.root_hash

\* the store after the call holds every record it held before, unchanged
KeepsRecords(r) ==
    \A old \in singleton_records : old \in r.w.db

\* C31: a successful create_update_state_spend with announce_new_state false
\* and add_pending_singleton true inserts exactly one record: unconfirmed, with
\* confirmed_at_height 0, one generation after the latest record, with the
\* latest record's coin id as lineage parent, the same launcher id, and the
\* root supplied or else the latest root; no existing record changes
C31_OnePendingRecord ==
    \A a \in UpdateInputs :
        LET r == create_update_state_spend(Now, a)
        IN  (r.err = "none" /\ ~a.announce_new_state /\ a.add_pending_singleton)
            => /\ KeepsRecords(r)
               /\ \E n \in r.w.db \ singleton_records :
                     /\ r.w.db = singleton_records \cup {n}
                     /\ \A old \in singleton_records : old.coin_id # n.coin_id
                     /\ ~n.confirmed
                     /\ n.confirmed_at_height = 0
                     /\ n.generation = LatestFor(a).generation + 1
                     /\ n.lineage_proof.parent_name = LatestFor(a).coin_id
                     /\ n.launcher_id = a.launcher_id
                     /\ n.root = RootFor(a)

C31_Witness ==
    /\ last.op = "create_update_state_spend"
    /\ last.err = "none"
    /\ last.tags = <<TRUE, FALSE>>
    /\ Cardinality(PendingOf(last.launcher_id)) = 1
    /\ \E n \in PendingOf(last.launcher_id), head \in HeadIn(Now, last.launcher_id) :
          /\ n.lineage_proof.parent_name = head.coin_id
          /\ n.generation = head.generation + 1
          /\ n.root = <<"R1">>

\* C32: a successful create_update_state_spend with announce_new_state and
\* add_pending_singleton inserts exactly two unconfirmed records: the ephemeral
\* one, one generation after the latest record and child of the latest coin,
\* and the final one, two generations after it and child of the ephemeral
\* coin; both carry the new root, and the returned bundle holds two coin spends,
\* those of the latest and of the ephemeral coin
C32_TwoPendingRecords ==
    \A a \in UpdateInputs :
        LET r == create_update_state_spend(Now, a)
        IN  (r.err = "none" /\ a.announce_new_state /\ a.add_pending_singleton)
            => /\ KeepsRecords(r)
               /\ \E e, n \in r.w.db \ singleton_records :
                     /\ e # n
                     /\ r.w.db = singleton_records \cup {e, n}
                     /\ ~e.confirmed /\ ~n.confirmed
                     /\ e.generation = LatestFor(a).generation + 1
                     /\ e.lineage_proof.parent_name = LatestFor(a).coin_id
                     /\ n.generation = LatestFor(a).generation + 2
                     /\ n.lineage_proof.parent_name = e.coin_id
                     /\ e.root = RootFor(a) /\ n.root = RootFor(a)
               /\ Len(SelectSeq(r.txs[1].spend_bundle.coin_spends,
                                LAMBDA s : match_dl_singleton(s.coin))) = 2
               /\ a.fee = 0 => Len(r.txs[1].spend_bundle.coin_spends) = 2

\* C33: create_update_state_spend with add_pending_singleton false leaves the
\* singleton store unchanged and still returns the transaction records; the
\* store changes, by unconfirmed records only, exactly when add_pending_singleton
\* is true and the call succeeds
C33_AddPendingOnly ==
    \A a \in UpdateInputs :
        LET r == create_update_state_spend(Now, a)
        IN  /\ (~a.add_pending_singleton /\ r.err = "none")
                  => /\ r.w.db = singleton_records
                     /\ r.txs # <<>>
                     /\ r.txs[1].name = LatestFor(a).coin_id
                     /\ r.txs[1].spend_bundle.present
            /\ r.w.db # singleton_records <=> (a.add_pending_singleton /\ r.err = "none")
            /\ \A n \in r.w.db \ singleton_records : ~n.confirmed

C33_Witness ==
    /\ last.op = "create_update_state_spend"
    /\ last.err = "none"
    /\ ~last.tags[1]
    /\ PendingOf(last.launcher_id) = {}
    /\ ConfirmedOf(last.launcher_id) # {}
    /\ derivation_index > 1

\* ---------------------------------------------------- the detector, run again
\* the detector cancelled at its k-th await and then run again to the end
RunAgain(w, launcher_id, funds, k) ==
    potentially_handle_resubmit(potentially_handle_resubmit_cancelled(w, launcher_id, funds, k),
                                launcher_id, funds)

\* C34: when the detector is cancelled at an await after it found a fork and is
\* then run again to the end, no record the first run deleted is back and the
\* singleton store and the transaction store are as an uninterrupted run from
\* the same state leaves them
C34_CancelledDetectorRunAgain ==
    \A i \in SyncInputs :
        DetectorSeesFork(i)
        => \A k \in ResubmitCancelPoints(Inserted(i), SyncLauncher(i)) :
              /\ \A p \in Inserted(i).db \ potentially_handle_resubmit_cancelled(
                                              Inserted(i), SyncLauncher(i), i.funds, k).db :
                    p \notin RunAgain(Inserted(i), SyncLauncher(i), i.funds, k).db
              /\ RunAgain(Inserted(i), SyncLauncher(i), i.funds, k).db = Synced(i).db
              /\ RunAgain(Inserted(i), SyncLauncher(i), i.funds, k).txs = Synced(i).txs

\* ---------------------------------------------------- confirmed records stay
\* C35: a confirmed record is never deleted and never becomes unconfirmed by
\* authoring, launcher processing, sync or the fork detector, cancelled or
\* not: every step other than stop_tracking_singleton keeps, for each
\* confirmed record, a confirmed record of the same coin
C35_ConfirmedStays ==
    [][last'.op # "stop_tracking_singleton"
         => \A r \in singleton_records :
               r.confirmed => \E q \in singleton_records' :
                                  q.coin_id = r.coin_id /\ q.confirmed]_vars

C35_Witness ==
    /\ last.op = "singleton_removed"
    /\ last.tags[1] \in {"rebase", "root_changed"}
    /\ Cardinality(ConfirmedOf(last.launcher_id)) >= 3
    /\ \E head \in HeadIn(Now, last.launcher_id) :
          \A g \in 0 .. head.generation :
              \E r \in ConfirmedOf(last.launcher_id) : r.generation = g

\* ------------------------------------------- pending records and transactions
\* every unconfirmed record of the launcher has an unconfirmed transaction in
\* the store that creates its coin
PendingHaveTxs(w, launcher_id) ==
    \A p \in PendingIn(w, launcher_id) :
        \E t \in w.txs : ~t.confirmed /\ p.coin_id \in t.additions

\* C36: whenever the fork detector returns, every unconfirmed record of the
\* launcher has a pending transaction in the transaction store whose additions
\* contain its coin
C36_PendingHaveTransactions ==
    \A i \in SyncInputs :
        SyncOutcome(Now, i.parent_spend) = "found"
            => PendingHaveTxs(Synced(i), SyncLauncher(i))

\* ------------------------------------------------ pending records of a spent coin
\* the pending records whose lineage parent is the coin a spend consumes
ChildrenPending(i) ==
    {p \in singleton_records : ~p.confirmed /\ p.lineage_proof.parent_name = i.parent_spend.coin}

\* C37: when singleton_removed has seen the spend of the parent coin of a
\* pending record, that record is confirmed or deleted when the call ends,
\* whatever the outcome, melt and missing hint included: no pending record
\* outlives the spend of its parent
C37_PendingResolvedBySpend ==
    \A i \in SyncInputs :
        Tracked(i)
        => \A p \in ChildrenPending(i) :
              \/ get_singleton_record(Synced(i).db, p.coin_id) = {}
              \/ \E q \in Synced(i).db : q.coin_id = p.coin_id /\ q.confirmed

\* ---------------------------------------------------------- one update at a time
\* two pending records are the pair of one announce update: the ephemeral
\* record and, one generation on, its child with the same root
AnnouncePair(e, n) ==
    /\ n.generation = e.generation + 1
    /\ n.lineage_proof.parent_name = e.coin_id
    /\ n.root = e.root
    /\ e.inner_puzzle_hash[1] = "announce"

\* C38: in every reachable state a launcher has at most two unconfirmed
\* records, and two only as the pair one authoring call with
\* announce_new_state wrote: no second update is queued behind an unconfirmed
\* record
C38_OneUpdatePending ==
    \A l \in LauncherIds :
        /\ Cardinality(PendingOf(l)) <= 2
        /\ Cardinality(PendingOf(l)) = 2
              => \E e, n \in PendingOf(l) : AnnouncePair(e, n)
        /\ \A a \in UpdateInputs :
              (a.launcher_id = l /\ (\E p \in LatestOf(l) : ~p.confirmed))
                  => create_update_state_spend(Now, a).err = "Pending"

\* --------------------------------------------------- the coin authoring spends
\* the singleton spends of the first returned transaction, in bundle order
SingletonSpends(r) ==
    SelectSeq(r.txs[1].spend_bundle.coin_spends, LAMBDA s : match_dl_singleton(s.coin))

\* the records a call wrote whose generation follows the latest record's
FirstWritten(r, a) ==
    {n \in r.w.db \ singleton_records : n.generation = LatestFor(a).generation + 1}

\* C39: a successful create_update_state_spend spends the coin whose id is the
\* latest record's coin_id: the transaction's name is the id of the coin its
\* bundle removes first and the lineage parent of the pending record written
\* for the next generation, for every confirmed latest record
C39_SpendsLatestCoin ==
    \A a \in UpdateInputs :
        LET r == create_update_state_spend(Now, a)
        IN  r.err = "none"
            => /\ r.txs[1].name = LatestFor(a).coin_id
               /\ SingletonSpends(r)[1].coin = LatestFor(a).coin_id
               /\ LatestFor(a).coin_id \in r.txs[1].removals
               /\ \A n \in FirstWritten(r, a) :
                     n.lineage_proof.parent_name = LatestFor(a).coin_id

====
